---------------------------- MODULE Spec2Model ----------------------------
(***************************************************************************)
(* A model of composer.js: the combinators of class Composer, the compiler *)
(* of compositions to a flat FSM (init/compile) and the conductor that     *)
(* steps the FSM (init/invoke), with the host that calls the conductor,    *)
(* runs the requested action and calls it again with the $resume token.    *)
(***************************************************************************)
EXTENDS Integers, Sequences, FiniteSets, TLC

(***************************************************************************)
(* JavaScript values.  A dictionary is a function from field names to      *)
(* values; every other value is a record with one tag field.               *)
(***************************************************************************)
Undefined == [undef |-> TRUE]
Num(n) == [num |-> n]
Str(s) == [str |-> s]
Bool(b) == [bool |-> b]
Arr(s) == [array |-> s]
Fn(code) == [fn |-> code]
EmptyObj == [k \in {} |-> Undefined]
LeafTags == {"undef", "num", "str", "bool", "array", "fn"}

\* const isObject = obj => typeof obj === 'object' && obj !== null && !Array.isArray(obj)
isObject(obj) == DOMAIN obj \cap LeafTags = {}

IsUndefined(v) == "undef" \in DOMAIN v
IsNumber(v) == "num" \in DOMAIN v
IsString(v) == "str" \in DOMAIN v
IsBoolean(v) == "bool" \in DOMAIN v
IsFunction(v) == "fn" \in DOMAIN v
IsArray(v) == "array" \in DOMAIN v

\* v[k] in JavaScript: undefined when the field is absent
Get(v, k) == IF isObject(v) /\ k \in DOMAIN v THEN v[k] ELSE Undefined

\* the truthiness JavaScript gives a value in a condition
Truthy(v) ==
    IF isObject(v) THEN TRUE
    ELSE IF IsUndefined(v) THEN FALSE
    ELSE IF IsNumber(v) THEN v.num # 0
    ELSE IF IsString(v) THEN v.str # ""
    ELSE IF IsBoolean(v) THEN v.bool
    ELSE TRUE

\* { ...o, k: v }
Put(o, k, v) == [f \in DOMAIN o \cup {k} |-> IF f = k THEN v ELSE o[f]]

\* delete o[k]
Delete(o, k) == [f \in DOMAIN o \ {k} |-> o[f]]

\* Object.assign(acc, cur): the fields of cur override those of acc
Assign(acc, cur) == [f \in DOMAIN acc \cup DOMAIN cur |-> IF f \in DOMAIN cur THEN cur[f] ELSE acc[f]]

RECURSIVE JSONClone(_)
\* JSON.parse(JSON.stringify(v)): fields whose value is undefined (or a
\* function) are dropped, at every depth
JSONClone(v) ==
    IF isObject(v)
    THEN [f \in {g \in DOMAIN v : ~IsUndefined(v[g]) /\ ~IsFunction(v[g])} |-> JSONClone(v[f])]
    ELSE IF IsArray(v) THEN Arr([i \in DOMAIN v.array |-> JSONClone(v.array[i])])
    ELSE v

(***************************************************************************)
(* Names.  The text of a name is the sequence of its characters, so that   *)
(* trim, split and join act on it as they do in JavaScript.                *)
(***************************************************************************)
delimiter == "/"

\* throw new ComposerError(message)
ComposerError(message) == [ComposerError |-> message]

RECURSIVE trimStart(_)
trimStart(t) == IF t # <<>> /\ Head(t) = " " THEN trimStart(Tail(t)) ELSE t

RECURSIVE trimEnd(_)
trimEnd(t) == IF t # <<>> /\ t[Len(t)] = " " THEN trimEnd(SubSeq(t, 1, Len(t) - 1)) ELSE t

\* t.trim()
trim(t) == trimEnd(trimStart(t))

RECURSIVE split(_)
\* t.split(delimiter)
split(t) ==
    IF \A i \in 1..Len(t) : t[i] # delimiter THEN <<t>>
    ELSE LET i == CHOOSE j \in 1..Len(t) : t[j] = delimiter /\ \A l \in 1..(j - 1) : t[l] # delimiter
         IN <<SubSeq(t, 1, i - 1)>> \o split(SubSeq(t, i + 1, Len(t)))

RECURSIVE join(_)
\* parts.join(delimiter)
join(parts) ==
    IF Len(parts) = 0 THEN <<>>
    ELSE IF Len(parts) = 1 THEN parts[1]
    ELSE parts[1] \o <<delimiter>> \o join(Tail(parts))

\* parseActionName without the return of a name that starts with a slash as it is
parseActionName_AlwaysQualify(name) ==
    IF ~IsString(name) \/ Len(trim(name.str)) = 0 THEN ComposerError("Name is not specified")
    ELSE LET name1 == trim(name.str)
             parts == split(name1)
             n == Len(parts)
             leadingSlash == name1[1] = delimiter
         IN IF n < 1 \/ n > 4 \/ (leadingSlash /\ n = 2) \/ (~leadingSlash /\ n = 4)
            THEN ComposerError("Name is not valid")
            ELSE IF \E i \in 2..n : Len(trim(parts[i])) = 0 THEN ComposerError("Name is not valid")
            ELSE LET newName == join(parts)
                 IN IF n < 3 THEN Str(<<delimiter, "_", delimiter>> \o newName)
                    ELSE Str(<<delimiter>> \o newName)

\* parseActionName(name): the qualified name, or the error thrown
parseActionName(name) ==
    IF ~IsString(name) \/ Len(trim(name.str)) = 0 THEN ComposerError("Name is not specified")
    ELSE LET name1 == trim(name.str)
             parts == split(name1)
             n == Len(parts)
             leadingSlash == name1[1] = delimiter
         IN IF n < 1 \/ n > 4 \/ (leadingSlash /\ n = 2) \/ (~leadingSlash /\ n = 4)
            THEN ComposerError("Name is not valid")
            ELSE IF \E i \in 2..n : Len(trim(parts[i])) = 0 THEN ComposerError("Name is not valid")
            ELSE LET newName == join(parts)
                 IN IF leadingSlash THEN Str(newName)
                    ELSE IF n < 3 THEN Str(<<delimiter, "_", delimiter>> \o newName)
                    ELSE Str(<<delimiter>> \o newName)

(***************************************************************************)
(* The combinators.  A composition is modelled by its composition array,   *)
(* a sequence of nodes; the arguments of a combinator are compositions     *)
(* already (task returns a Composition argument as it is).                 *)
(***************************************************************************)

\* validate(options): undefined for null and for {}
validate(options) ==
    IF IsUndefined(options) THEN Undefined
    ELSE IF JSONClone(options) = EmptyObj THEN Undefined
    ELSE JSONClone(options)

\* new Composition(composition, options) for a single node
Composition(node, options) ==
    IF IsUndefined(validate(options)) THEN <<node>>
    ELSE <<Assign([options |-> validate(options)], node)>>

RECURSIVE Flatten(_)
\* [].concat(...composition)
Flatten(comps) == IF comps = <<>> THEN <<>> ELSE Head(comps) \o Flatten(Tail(comps))

\* sequence(...): the children's arrays, flattened
composer_sequence(comps) == Flatten(comps)

composer_if(test, consequent, alternate, options) ==
    Composition([type |-> "if", test |-> test, consequent |-> consequent, alternate |-> alternate], options)

composer_while(test, body, options) ==
    Composition([type |-> "while", test |-> test, body |-> body], options)

composer_dowhile(body, test, options) ==
    Composition([type |-> "dowhile", test |-> test, body |-> body], options)

composer_try(body, handler, options) ==
    Composition([type |-> "try", body |-> body, handler |-> handler], options)

composer_finally(body, finalizer, options) ==
    Composition([type |-> "finally", body |-> body, finalizer |-> finalizer], options)

composer_let(declarations, bodies) ==
    Composition([type |-> "let", declarations |-> declarations, body |-> composer_sequence(bodies)], Undefined)

composer_literal(value, options) ==
    Composition([type |-> "literal", value |-> IF IsUndefined(value) THEN EmptyObj ELSE value], options)

\* function(fun, options): the source text of fun is its code
composer_function(fun, options) ==
    Composition([type |-> "function", exec |-> [kind |-> Str("nodejs:default"), code |-> Str(fun)]], options)

\* the exec that the options of action(name, options) define, undefined if they define none
action_exec(options) ==
    LET action == Get(options, "action")
    IN IF IsFunction(action) THEN [kind |-> Str("nodejs:default"), code |-> Str(action.fn)]
       ELSE IF IsString(action) THEN [kind |-> Str("nodejs:default"), code |-> action]
       ELSE IF isObject(action) THEN action
       ELSE IF IsArray(Get(options, "sequence"))
       THEN [kind |-> Str("sequence"),
             components |-> Arr([i \in DOMAIN options.sequence.array |->
                 LET a == options.sequence.array[i].str
                 IN IF \A j \in 1..Len(a) : a[j] # delimiter
                    THEN Str(<<delimiter, "_", delimiter>> \o a) ELSE Str(a)])]
       ELSE Undefined

\* the options of action(name, options) once the definition is taken out of them
action_options(options) ==
    LET o1 == IF IsArray(Get(options, "sequence")) THEN Delete(options, "sequence") ELSE options
    IN IF IsFunction(Get(o1, "action")) \/ IsString(Get(o1, "action")) \/ isObject(Get(o1, "action"))
       THEN Delete(o1, "action") ELSE o1

\* action(name, options): the composition array
composer_action(name, options) ==
    Composition([type |-> "action", name |-> parseActionName(name)], action_options(options))

\* action(name, options): the attached actions
action_actions(name, options) ==
    IF IsUndefined(action_exec(options)) THEN <<>>
    ELSE <<[name |-> parseActionName(name), action |-> [exec |-> action_exec(options)]]>>

RECURSIVE composer_retain(_, _)
composer_retain(body, options) ==
    IF IsFunction(Get(options, "filter"))
    THEN composer_sequence(<<
            composer_retain(composer_function(options.filter.fn, Undefined), Undefined),
            composer_retain(
                composer_finally(composer_function("retain_3", [helper |-> Str("retain_3")]), body, Undefined),
                Put(Delete(options, "filter"), "field", Str("result")))>>)
    ELSE IF IsBoolean(Get(options, "catch")) /\ Truthy(Get(options, "catch"))
    THEN composer_sequence(<<
            composer_retain(
                composer_finally(body, composer_function("retain_1", [helper |-> Str("retain_1")]), Undefined),
                Delete(options, "catch")),
            composer_function("retain_2", [helper |-> Str("retain_2")])>>)
    ELSE Composition([type |-> "retain", body |-> body], options)

composer_repeat(count, bodies) ==
    composer_let([count |-> count],
        <<composer_while(composer_function("repeat_1", [helper |-> Str("repeat_1")]),
                         composer_sequence(bodies), Undefined)>>)

composer_retry(count, bodies) ==
    composer_let([count |-> count],
        << composer_function("retry_1", [helper |-> Str("retry_1")]),
           composer_dowhile(
               composer_finally(composer_function("retry_2", [helper |-> Str("retry_2")]),
                                composer_retain(composer_sequence(bodies), [catch |-> Bool(TRUE)]),
                                Undefined),
               composer_function("retry_3", [helper |-> Str("retry_3")]),
               Undefined),
           composer_function("retry_4", [helper |-> Str("retry_4")]) >>)

(***************************************************************************)
(* The compiler.  An instruction carries its type, its path in the         *)
(* composition and the fields of its type; a field the code leaves unset   *)
(* is Undefined.  A path is the sequence of the pieces the code appends.   *)
(***************************************************************************)
Instr(type, path) ==
    [type |-> type, path |-> path, next |-> Undefined, then |-> Undefined,
     else |-> Undefined, catch |-> Undefined, field |-> Undefined,
     collect |-> Undefined, name |-> Undefined, value |-> Undefined,
     let |-> Undefined, exec |-> Undefined]

\* fsm.slice(-1)[0].next = n
SetLastNext(fsm, n) == [fsm EXCEPT ![Len(fsm)].next = Num(n)]

chain(front, back) == SetLastNext(front, 1) \o back

RECURSIVE ReduceChain(_)
\* [f1, f2, ...].reduce(chain)
ReduceChain(fsms) ==
    IF Len(fsms) = 1 THEN fsms[1]
    ELSE chain(ReduceChain(SubSeq(fsms, 1, Len(fsms) - 1)), fsms[Len(fsms)])

\* case 'finally' with the catch offset one short: it leads to the exit
compileFinally_CatchAtExit(body, finalizer, path) ==
    LET fsm0 == ReduceChain(<< <<Instr("try", path)>>, body, <<Instr("exit", path)>>, finalizer >>)
    IN [fsm0 EXCEPT ![1].catch = Num(Len(fsm0) - Len(finalizer) - 1)]

\* case 'finally', given the compiled body and finalizer
compileFinally(body, finalizer, path) ==
    LET fsm0 == ReduceChain(<< <<Instr("try", path)>>, body, <<Instr("exit", path)>>, finalizer >>)
    IN [fsm0 EXCEPT ![1].catch = Num(Len(fsm0) - Len(finalizer))]

\* case 'let' without the exit that removes the let frame
compileLet_NoExit(declarations, body, path) ==
    ReduceChain(<< <<[Instr("let", path) EXCEPT !.let = declarations]>>, body >>)

\* case 'let', given the compiled body
compileLet(declarations, body, path) ==
    ReduceChain(<< <<[Instr("let", path) EXCEPT !.let = declarations]>>, body, <<Instr("exit", path)>> >>)

\* case 'retain', given the compiled body
compileRetain(body, options, path) ==
    LET fsm0 == ReduceChain(<< <<Instr("push", path)>>, body,
                               <<[Instr("pop", path) EXCEPT !.collect = Bool(TRUE)]>> >>)
    IN IF Truthy(Get(options, "field")) THEN [fsm0 EXCEPT ![1].field = options.field] ELSE fsm0

\* case 'try' with the exit chained to the handler: on success control falls into the handler
compileTry_FallThrough(body, handler0, path) ==
    LET handler == chain(handler0, <<Instr("pass", path)>>)
        fsm0 == ReduceChain(<< <<Instr("try", path)>>, body, <<Instr("exit", path)>> >>)
        fsm1 == [fsm0 EXCEPT ![1].catch = Num(Len(fsm0))]
    IN chain(fsm1, handler)

\* case 'try', given the compiled body and handler
compileTry(body, handler0, path) ==
    LET handler == chain(handler0, <<Instr("pass", path)>>)
        fsm0 == ReduceChain(<< <<Instr("try", path)>>, body, <<Instr("exit", path)>> >>)
        fsm1 == [fsm0 EXCEPT ![1].catch = Num(Len(fsm0))]
    IN SetLastNext(fsm1, Len(handler)) \o handler

\* case 'if' with the pop left out of the alternate branch
compileIf_NoPopInElse(test, consequent0, alternate00, nosave, path) ==
    LET alternate0 == chain(alternate00, <<Instr("pass", path)>>)
        consequent == IF ~nosave THEN chain(<<Instr("pop", path)>>, consequent0) ELSE consequent0
        alternate == alternate0
        fsm0 == chain(test, <<[Instr("choice", path) EXCEPT !.then = Num(1), !.else = Num(Len(consequent) + 1)]>>)
        fsm1 == IF ~nosave THEN chain(<<Instr("push", path)>>, fsm0) ELSE fsm0
    IN fsm1 \o SetLastNext(consequent, Len(alternate)) \o alternate

\* case 'if', given the compiled test, consequent and alternate
compileIf(test, consequent0, alternate00, nosave, path) ==
    LET alternate0 == chain(alternate00, <<Instr("pass", path)>>)
        consequent == IF ~nosave THEN chain(<<Instr("pop", path)>>, consequent0) ELSE consequent0
        alternate == IF ~nosave THEN chain(<<Instr("pop", path)>>, alternate0) ELSE alternate0
        fsm0 == chain(test, <<[Instr("choice", path) EXCEPT !.then = Num(1), !.else = Num(Len(consequent) + 1)]>>)
        fsm1 == IF ~nosave THEN chain(<<Instr("push", path)>>, fsm0) ELSE fsm0
    IN fsm1 \o SetLastNext(consequent, Len(alternate)) \o alternate

\* case 'while' with the else offset one too far
compileWhile_FarElse(test, consequent0, nosave, path) ==
    LET alternate0 == <<Instr("pass", path)>>
        consequent == IF ~nosave THEN chain(<<Instr("pop", path)>>, consequent0) ELSE consequent0
        alternate == IF ~nosave THEN chain(<<Instr("pop", path)>>, alternate0) ELSE alternate0
        fsm0 == chain(test, <<[Instr("choice", path) EXCEPT !.then = Num(1), !.else = Num(Len(consequent) + 2)]>>)
        fsm1 == IF ~nosave THEN chain(<<Instr("push", path)>>, fsm0) ELSE fsm0
    IN fsm1 \o SetLastNext(consequent, 1 - Len(fsm1) - Len(consequent)) \o alternate

\* case 'while', given the compiled test and body
compileWhile(test, consequent0, nosave, path) ==
    LET alternate0 == <<Instr("pass", path)>>
        consequent == IF ~nosave THEN chain(<<Instr("pop", path)>>, consequent0) ELSE consequent0
        alternate == IF ~nosave THEN chain(<<Instr("pop", path)>>, alternate0) ELSE alternate0
        fsm0 == chain(test, <<[Instr("choice", path) EXCEPT !.then = Num(1), !.else = Num(Len(consequent) + 1)]>>)
        fsm1 == IF ~nosave THEN chain(<<Instr("push", path)>>, fsm0) ELSE fsm0
    IN fsm1 \o SetLastNext(consequent, 1 - Len(fsm1) - Len(consequent)) \o alternate

\* case 'dowhile', given the compiled body and test
compileDowhile(body, test0, nosave, path) ==
    LET test == IF ~nosave THEN chain(<<Instr("push", path)>>, test0) ELSE test0
        fsm0 == ReduceChain(<< body, test,
                               <<[Instr("choice", path) EXCEPT !.then = Num(1), !.else = Num(2)]>> >>)
        fsm1 == IF nosave
                THEN [fsm0 EXCEPT ![Len(fsm0)].then = Num(1 - Len(fsm0)), ![Len(fsm0)].else = Num(1)]
                ELSE SetLastNext(fsm0 \o <<Instr("pop", path)>>, 1 - (Len(fsm0) + 1))
        alternate0 == <<Instr("pass", path)>>
        alternate == IF ~nosave THEN chain(<<Instr("pop", path)>>, alternate0) ELSE alternate0
    IN fsm1 \o alternate

RECURSIVE compile(_, _)
RECURSIVE compileNode(_, _)
\* compile(json, path) for an array
compile(json, path) ==
    IF Len(json) = 0 THEN <<Instr("pass", path)>>
    ELSE ReduceChain([index \in 1..Len(json) |->
            compileNode(json[index], path \o <<"[" \o ToString(index - 1) \o "]">>)])

\* compile(json, path) for a node
compileNode(json, path) ==
    LET options == IF Truthy(Get(json, "options")) THEN json.options ELSE EmptyObj
        nosave == Truthy(Get(options, "nosave"))
    IN
    CASE json.type = "action" -> <<[Instr("action", path) EXCEPT !.name = json.name]>>
      [] json.type = "function" -> <<[Instr("function", path) EXCEPT !.exec = json.exec]>>
      [] json.type = "literal" -> <<[Instr("literal", path) EXCEPT !.value = json.value]>>
      [] json.type = "finally" ->
            compileFinally(compile(json.body, path \o <<".body">>),
                           compile(json.finalizer, path \o <<".finalizer">>), path)
      [] json.type = "let" ->
            compileLet(json.declarations, compile(json.body, path \o <<".body">>), path)
      [] json.type = "retain" ->
            compileRetain(compile(json.body, path \o <<".body">>), options, path)
      [] json.type = "try" ->
            compileTry(compile(json.body, path \o <<".body">>),
                       compile(json.handler, path \o <<".handler">>), path)
      [] json.type = "if" ->
            compileIf(compile(json.test, path \o <<".test">>),
                      compile(json.consequent, path \o <<".consequent">>),
                      compile(json.alternate, path \o <<".alternate">>), nosave, path)
      [] json.type = "while" ->
            compileWhile(compile(json.test, path \o <<".test">>),
                         compile(json.body, path \o <<".body">>), nosave, path)
      [] json.type = "dowhile" ->
            compileDowhile(compile(json.body, path \o <<".body">>),
                           compile(json.test, path \o <<".test">>), nosave, path)

(***************************************************************************)
(* Inline functions.  The conductor evaluates the source text of a         *)
(* function on params in the environment env of the let-bound names.       *)
(* Outcomes(code, params, env) is the set of what the evaluation can do:   *)
(* throws, or returns result, and the values it leaves in the names.       *)
(* The helper functions are the ones the combinators create; the others    *)
(* are the inline functions of the compositions that are run below.        *)
(***************************************************************************)
Returns(result, env) == [throws |-> FALSE, result |-> result, env |-> env]
Throws(env) == [throws |-> TRUE, result |-> Undefined, env |-> env]

\* the counter decremented before the test: () => --count > 0
repeat_1_PreDecrement(p, env) ==
    IF IsNumber(Get(env, "count"))
    THEN {Returns(Bool(env.count.num - 1 > 0), Put(env, "count", Num(env.count.num - 1)))}
    ELSE {Throws(env)}

\* () => count-- > 0
repeat_1(p, env) ==
    IF IsNumber(Get(env, "count"))
    THEN {Returns(Bool(env.count.num > 0), Put(env, "count", Num(env.count.num - 1)))}
    ELSE {Throws(env)}

\* one retry too many: ({ result }) => typeof result.error !== 'undefined' && count-- >= 0
retry_3_OneMore(p, env) ==
    IF ~isObject(Get(p, "result")) \/ ~IsNumber(Get(env, "count")) THEN {Throws(env)}
    ELSE IF IsUndefined(Get(p.result, "error")) THEN {Returns(Bool(FALSE), env)}
    ELSE {Returns(Bool(env.count.num >= 0), Put(env, "count", Num(env.count.num - 1)))}

\* ({ result }) => typeof result.error !== 'undefined' && count-- > 0
retry_3(p, env) ==
    IF ~isObject(Get(p, "result")) \/ ~IsNumber(Get(env, "count")) THEN {Throws(env)}
    ELSE IF IsUndefined(Get(p.result, "error")) THEN {Returns(Bool(FALSE), env)}
    ELSE {Returns(Bool(env.count.num > 0), Put(env, "count", Num(env.count.num - 1)))}

Outcomes(code, p, env) ==
    CASE code = "retain_1" -> \* result => ({ result })
            {Returns([result |-> p], env)}
      [] code = "retain_2" -> \* ({ params, result }) => ({ params, result: result.result })
            IF isObject(Get(p, "result"))
            THEN {Returns([params |-> Get(p, "params"), result |-> Get(p.result, "result")], env)}
            ELSE {Throws(env)}
      [] code = "retain_3" -> \* ({ params }) => params
            {Returns(Get(p, "params"), env)}
      [] code = "repeat_1" -> repeat_1(p, env)
      [] code = "retry_1" -> \* params => ({ params })
            {Returns([params |-> p], env)}
      [] code = "retry_2" -> \* ({ params }) => params
            {Returns(Get(p, "params"), env)}
      [] code = "retry_3" -> retry_3(p, env)
      [] code = "retry_4" -> \* ({ result }) => result
            {Returns(Get(p, "result"), env)}
      [] code = "tick" -> \* p => ({ n: (p.n || 0) + 1 })
            {Returns([n |-> Num((IF IsNumber(Get(p, "n")) THEN p.n.num ELSE 0) + 1)], env)}
      [] code = "fail" -> \* () => ({ error: 'x' })
            {Returns([error |-> Str("x")], env)}
      [] code = "zero" -> \* () => ({ error: 0 })
            {Returns([error |-> Num(0)], env)}
      [] code = "flaky" -> \* p => { if (oracle()) throw 'down'; return oracle() ? { n: p.n } : { error: 'y' } }
            {Throws(env), Returns([n |-> Get(p, "n")], env), Returns([error |-> Str("y")], env)}
      [] code = "noop" -> \* () => { }
            {Returns(Undefined, env)}
      [] code = "caught" -> \* p => ({ value: 'caught', cause: p.error })
            {Returns([value |-> Str("caught"), cause |-> Get(p, "error")], env)}
      [] code = "positive" -> \* p => p.n > 0
            {Returns(Bool(IsNumber(Get(p, "n")) /\ Get(p, "n").num > 0), env)}
      [] code = "loud" -> \* p => ({ value: p.n > 0, n: p.n, seen: true })
            {Returns([value |-> Bool(IsNumber(Get(p, "n")) /\ Get(p, "n").num > 0), n |-> Get(p, "n"),
                      seen |-> Bool(TRUE)], env)}
      [] code = "bump" -> \* p => ({ n: v++ })
            IF IsNumber(Get(env, "v"))
            THEN {Returns([n |-> env.v], Put(env, "v", Num(env.v.num + 1)))}
            ELSE {Throws(env)}
      [] code = "forget" -> \* () => { v = undefined }
            IF "v" \in DOMAIN env THEN {Returns(Undefined, Put(env, "v", Undefined))} ELSE {Throws(env)}
      [] code = "down" -> \* p => ({ n: p.n - 1 })
            {Returns([n |-> Num((IF IsNumber(Get(p, "n")) THEN p.n.num ELSE 0) - 1)], env)}


(***************************************************************************)
(* The conductor.  fsm is the compiled composition; params, state and      *)
(* stack are the locals of invoke; pc tells whether the host has yet to    *)
(* call ("idle"), the step loop runs ("running"), the invocation returned  *)
(* an action request ("suspended") or ended ("done"); output is what the   *)
(* last invocation returned to the host.  The other variables observe the  *)
(* run: trace lists the instructions executed, emitted counts the action   *)
(* requests of the current invocation, invocations the host's calls, and u *)
(* is the configuration of the run that is never suspended.                *)
(***************************************************************************)
VARIABLES composition, fsm, params, state, stack, pc, output, trace, emitted, invocations, u

conductor == <<composition, fsm, params, state, stack, pc, output, trace, emitted, invocations, u>>

\* The state of the library outside the conductor.  built is the Composition
\* object that calls of the combinators have built, program what compile
\* made of it and steps the number of the calls; given is a name handed to
\* parseActionName and qualified what it returned or threw; attached is the
\* list of the actions that deploy publishes, index the place of deploy in
\* the list, issued the calls deploy has made of the platform, and phase what
\* deploy waits for.
VARIABLES built, program, steps, given, qualified, attached, index, issued, phase

library == <<built, program, steps, given, qualified, attached, index, issued, phase>>

vars == <<conductor, library>>

Conf(p, s, k) == [params |-> p, state |-> s, stack |-> k]

\* the unwinding loop left out: on an error the run aborts whatever the stack holds
Unwind_Abort(s, k) == [state |-> Undefined, stack |-> <<>>]

RECURSIVE Unwind_KeepLets(_, _)
\* an unwinding that removes the save and catch frames it passes but leaves the let frames
Unwind_KeepLets(s, k) ==
    IF Len(k) = 0 THEN [state |-> s, stack |-> k]
    ELSE IF IsNumber(Get(Head(k), "catch")) THEN [state |-> Head(k).catch, stack |-> Tail(k)]
    ELSE LET w == Unwind_KeepLets(Get(Head(k), "catch"), Tail(k))
         IN IF isObject(Get(Head(k), "let")) /\ IsNumber(w.state)
            THEN [state |-> w.state, stack |-> <<Head(k)>> \o w.stack]
            ELSE w

RECURSIVE Unwind_KeepCatch(_, _)
\* an unwinding that reads the catch frame it stops at without removing it
Unwind_KeepCatch(s, k) ==
    IF Len(k) = 0 THEN [state |-> s, stack |-> k]
    ELSE IF IsNumber(Get(Head(k), "catch")) THEN [state |-> Head(k).catch, stack |-> k]
    ELSE Unwind_KeepCatch(Get(Head(k), "catch"), Tail(k))

RECURSIVE Unwind_TakeBelow(_, _)
\* an unwinding that removes the frame below the catch frame it stops at as well
Unwind_TakeBelow(s, k) ==
    IF Len(k) = 0 THEN [state |-> s, stack |-> k]
    ELSE IF IsNumber(Get(Head(k), "catch"))
         THEN [state |-> Head(k).catch, stack |-> IF Len(k) > 1 THEN Tail(Tail(k)) ELSE Tail(k)]
    ELSE Unwind_TakeBelow(Get(Head(k), "catch"), Tail(k))

RECURSIVE Unwind(_, _)
\* while (stack.length > 0) { if (typeof (state = stack.shift().catch) === 'number') break }
Unwind(s, k) ==
    IF Len(k) = 0 THEN [state |-> s, stack |-> k]
    ELSE IF IsNumber(Get(Head(k), "catch")) THEN [state |-> Head(k).catch, stack |-> Tail(k)]
    ELSE Unwind(Get(Head(k), "catch"), Tail(k))

\* inspect(): the configuration it leaves
inspect(c) ==
    LET p == IF ~isObject(c.params) THEN [value |-> c.params] ELSE c.params
    IN IF ~IsUndefined(Get(p, "error"))
       THEN LET w == Unwind(Undefined, c.stack)
            IN Conf([error |-> p.error], w.state, w.stack)
       ELSE Conf(p, c.state, c.stack)

RECURSIVE env(_)
\* stack.reduceRight((acc, cur) => typeof cur.let === 'object' ? Object.assign(acc, cur.let) : acc, {})
env(k) ==
    IF Len(k) = 0 THEN EmptyObj
    ELSE IF isObject(Get(Head(k), "let")) THEN Assign(env(Tail(k)), Head(k).let)
    ELSE env(Tail(k))

RECURSIVE set(_, _, _)
\* set(symbol, value): the stack with the topmost frame that defines symbol updated
set(k, symbol, value) ==
    IF Len(k) = 0 THEN k
    ELSE IF ~IsUndefined(Get(Head(k), "let")) /\ ~IsUndefined(Get(Head(k).let, symbol))
         THEN <<[Head(k) EXCEPT !.let = Put(Head(k).let, symbol, JSONClone(value))]>> \o Tail(k)
         ELSE <<Head(k)>> \o set(Tail(k), symbol, value)

RECURSIVE SetAll(_, _, _)
\* for (const name in env) set(name, env[name])
SetAll(k, e, names) ==
    IF names = {} THEN k
    ELSE LET name == CHOOSE n \in names : TRUE
         IN SetAll(set(k, name, e[name]), e, names \ {name})

\* the names for which set() throws: JSON.stringify gives undefined for their
\* value and JSON.parse(undefined) is a SyntaxError
Unwritable(e) == {name \in DOMAIN e : IsUndefined(e[name]) \/ IsFunction(e[name])}

\* the instruction at state, and the default next state
json == fsm[state.num + 1]
current == state.num
DefaultNext == IF IsUndefined(json.next) THEN Undefined ELSE Num(current + json.next.num)

\* what the host receives and sends: JSON
HostWire(v) == JSONClone(v)

\* the restore without the call of inspect() that handles a resumed error
Restore_NoInspect(p) ==
    LET r == Get(p, "$resume")
    IN IF IsUndefined(r) THEN [ok |-> TRUE, conf |-> Conf(p, Num(0), <<>>)]
       ELSE [ok |-> TRUE, conf |-> Conf(Delete(p, "$resume"), Get(r, "state"), r.stack.array)]

\* the configuration after lines 408-421 of invoke(p), or the rejection
Restore(p) ==
    LET r == Get(p, "$resume")
    IN IF IsUndefined(r) THEN [ok |-> TRUE, conf |-> Conf(p, Num(0), <<>>)]
       ELSE IF ~isObject(r)
            THEN [ok |-> FALSE, error |-> Str("The type of optional $resume parameter must be object")]
       ELSE IF ~IsUndefined(Get(r, "state")) /\ ~IsNumber(Get(r, "state"))
            THEN [ok |-> FALSE, error |-> Str("The type of optional $resume.state parameter must be number")]
       ELSE IF ~IsArray(Get(r, "stack"))
            THEN [ok |-> FALSE, error |-> Str("The type of $resume.stack must be an array")]
       ELSE [ok |-> TRUE, conf |-> inspect(Conf(Delete(p, "$resume"), Get(r, "state"), r.stack.array))]

\* const badRequest = error => Promise.reject({ code: 400, error })
badRequest(error) == [code |-> Num(400), error |-> error]

\* encodeError without the error's own code: every failure is a 500
encodeError_NoCode(error) ==
    [code |-> Num(500),
     error |-> IF IsString(Get(error, "error")) /\ Truthy(Get(error, "error")) THEN error.error
               ELSE IF Truthy(Get(error, "message")) THEN error.message
               ELSE IF IsString(error) /\ Truthy(error) THEN error
               ELSE Str("An internal error occurred")]

\* encodeError(error)
encodeError(error) ==
    [code |-> IF IsNumber(Get(error, "code")) /\ Truthy(Get(error, "code")) THEN error.code ELSE Num(500),
     error |-> IF IsString(Get(error, "error")) /\ Truthy(Get(error, "error")) THEN error.error
               ELSE IF Truthy(Get(error, "message")) THEN error.message
               ELSE IF IsString(error) /\ Truthy(error) THEN error
               ELSE Str("An internal error occurred")]


\* the step loop is at an instruction
Running == pc = "running" /\ IsNumber(state) /\ state.num \in 0..(Len(fsm) - 1)

\* the instruction executed, as the trace records it: its index, type and path, the
\* params and stack it found, and the value it handed to inspect() if it did
Event(raw) ==
    [at |-> current, type |-> json.type, path |-> json.path, params |-> params, stack |-> stack, raw |-> raw]

\* the step loop goes on in configuration c
Advance(c, raw) ==
    /\ params' = c.params
    /\ state' = c.state
    /\ stack' = c.stack
    /\ trace' = Append(trace, Event(raw))
    /\ u' = IF u = Conf(params, state, stack) THEN c ELSE u
    /\ UNCHANGED <<composition, fsm, pc, invocations, library>>

\* an instruction that requests nothing of the host
Silent == UNCHANGED <<output, emitted>>

\* invoke returns value: the invocation is over
Return(value, to) ==
    /\ output' = value
    /\ pc' = to
    /\ state' = DefaultNext
    /\ trace' = Append(trace, Event(Undefined))
    /\ UNCHANGED <<composition, fsm, params, stack, invocations, library>>

\* const internalError = error => Promise.reject(encodeError(error))
internalError(error) == encodeError(error)

PopFromEmpty == Str("State " \o ToString(current) \o " attempted to pop from an empty stack")

StepChoice ==
    /\ Running /\ json.type = "choice"
    /\ Silent
    /\ Advance(Conf(params,
                    Num(current + (IF Truthy(Get(params, "value")) THEN json.then.num ELSE json.else.num)),
                    stack), Undefined)

StepTry ==
    /\ Running /\ json.type = "try"
    /\ Silent
    /\ Advance(Conf(params, DefaultNext, <<[catch |-> Num(current + json.catch.num)]>> \o stack), Undefined)

StepLet ==
    /\ Running /\ json.type = "let"
    /\ Silent
    /\ Advance(Conf(params, DefaultNext, <<[let |-> JSONClone(json.let)]>> \o stack), Undefined)

StepExit ==
    /\ Running /\ json.type = "exit"
    /\ IF Len(stack) = 0
       THEN /\ Return(internalError(PopFromEmpty), "done")
            /\ UNCHANGED <<emitted, u>>
       ELSE Advance(Conf(params, DefaultNext, Tail(stack)), Undefined) /\ Silent

\* case 'push' that saves the whole params whatever json.field says
StepPush_WholeParams ==
    /\ Running /\ json.type = "push"
    /\ Silent
    /\ Advance(Conf(params, DefaultNext, <<JSONClone([params |-> params])>> \o stack), Undefined)

StepPush ==
    /\ Running /\ json.type = "push"
    /\ Silent
    /\ Advance(Conf(params, DefaultNext,
                    <<JSONClone([params |-> IF Truthy(json.field) THEN Get(params, json.field.str) ELSE params])>>
                        \o stack), Undefined)

\* case 'pop' that removes the frame and, unless it collects, leaves params as they are
StepPop_KeepParams ==
    /\ Running /\ json.type = "pop"
    /\ IF Len(stack) = 0
       THEN /\ Return(internalError(PopFromEmpty), "done")
            /\ UNCHANGED <<emitted, u>>
       ELSE Advance(Conf(IF Truthy(json.collect)
                         THEN [params |-> Get(Head(stack), "params"), result |-> params]
                         ELSE params,
                         DefaultNext, Tail(stack)), Undefined) /\ Silent

StepPop ==
    /\ Running /\ json.type = "pop"
    /\ IF Len(stack) = 0
       THEN /\ Return(internalError(PopFromEmpty), "done")
            /\ UNCHANGED <<emitted, u>>
       ELSE Advance(Conf(IF Truthy(json.collect)
                         THEN [params |-> Get(Head(stack), "params"), result |-> params]
                         ELSE Get(Head(stack), "params"),
                         DefaultNext, Tail(stack)), Undefined) /\ Silent

\* case 'action' with the return forgotten: the request is handed out and the loop goes on
StepAction_NoReturn ==
    /\ Running /\ json.type = "action"
    /\ Advance(Conf(params, DefaultNext, stack), Undefined)
    /\ output' = [action |-> json.name, params |-> params]
    /\ emitted' = emitted + 1

\* case 'action' with the token taken before the default next state is set
StepAction_StaleState ==
    /\ Running /\ json.type = "action"
    /\ Return([action |-> json.name, params |-> params,
               state |-> [r \in {"$resume"} |-> [state |-> state, stack |-> Arr(stack)]]], "suspended")
    /\ emitted' = emitted + 1
    /\ u' = IF u = Conf(params, state, stack) THEN Conf(params, DefaultNext, stack) ELSE u

\* return { action: json.name, params, state: { $resume: { state, stack } } }
StepAction ==
    /\ Running /\ json.type = "action"
    /\ Return([action |-> json.name, params |-> params,
               state |-> [r \in {"$resume"} |-> [state |-> DefaultNext, stack |-> Arr(stack)]]], "suspended")
    /\ emitted' = emitted + 1
    /\ u' = IF u = Conf(params, state, stack) THEN Conf(params, DefaultNext, stack) ELSE u

StepLiteral ==
    /\ Running /\ json.type = "literal"
    /\ Silent
    /\ Advance(inspect(Conf(JSONClone(json.value), DefaultNext, stack)), JSONClone(json.value))

\* run(json.exec.code) and what case 'function' makes of it
StepFunction ==
    /\ Running /\ json.type = "function"
    /\ Silent
    /\ \E o \in Outcomes(json.exec.code.str, params, env(stack)) :
        \* the names that the loop of run's finally block writes: all of them, or those
        \* that come before the first one for which set() throws (dictionaries carry no
        \* order of their keys here, so any of the other names may come before it)
        \E before \in (IF Unwritable(o.env) = {} THEN {DOMAIN o.env}
                       ELSE SUBSET (DOMAIN o.env \ Unwritable(o.env))) :
          LET written == SetAll(stack, o.env, before)
              result0 == IF o.throws \/ Unwritable(o.env) # {}
                         THEN [error |-> Str("An exception was caught at state " \o ToString(current)
                                             \o " (see log for details)")]
                         ELSE o.result
              result == IF IsFunction(result0)
                        THEN [error |-> Str("State " \o ToString(current) \o " evaluated to a function")]
                        ELSE result0
              cloned == JSONClone(IF IsUndefined(result) THEN params ELSE result)
          IN Advance(inspect(Conf(cloned, DefaultNext, written)), cloned)

\* case 'pass' without the call of inspect()
StepPass_NoInspect ==
    /\ Running /\ json.type = "pass"
    /\ Silent
    /\ Advance(Conf(params, DefaultNext, stack), Undefined)

StepPass ==
    /\ Running /\ json.type = "pass"
    /\ Silent
    /\ Advance(inspect(Conf(params, DefaultNext, stack)), params)

\* if (params.error) return params; else return { params }
Final ==
    /\ pc = "running" /\ IsUndefined(state)
    /\ output' = IF Truthy(Get(params, "error")) THEN params ELSE [params |-> params]
    /\ pc' = "done"
    /\ UNCHANGED <<composition, fsm, params, state, stack, trace, emitted, invocations, u, library>>

\* invoke(p): the restore of lines 408-421, then the step loop or the rejection
Enter(p) ==
    LET r == Restore(p)
    IN /\ invocations' = invocations + 1
       /\ emitted' = 0
       /\ IF r.ok
          THEN /\ params' = r.conf.params
               /\ state' = r.conf.state
               /\ stack' = r.conf.stack
               /\ pc' = "running"
               /\ UNCHANGED output
          ELSE /\ output' = internalError(badRequest(r.error))
               /\ pc' = "done"
               /\ UNCHANGED <<params, state, stack>>
       /\ UNCHANGED <<composition, fsm, library>>

\* the host's first call, with the input params
Invoke ==
    /\ pc = "idle"
    /\ Enter(params)
    /\ u' = Conf(params, Num(0), <<>>)
    /\ UNCHANGED trace

\* the results the requested action may give the host
ActionResults == {[n |-> Num(5)], [error |-> Str("boom"), code |-> Num(7)], [error |-> Num(0)]}

\* the host ran the action and calls again with its result merged with the state it was given
Resume ==
    /\ pc = "suspended"
    /\ \E result \in ActionResults :
          /\ Enter(Assign(result, HostWire(output).state))
          /\ u' = inspect(Conf(result, u.state, u.stack))
          /\ trace' = Append(trace, [at |-> trace[Len(trace)].at, type |-> "resume",
                                     path |-> trace[Len(trace)].path, params |-> result,
                                     stack |-> HostWire(output).state["$resume"].stack.array,
                                     raw |-> result])


(***************************************************************************)
(* The compositions that are run, and the params they are run on.          *)
(***************************************************************************)
MaxCount == 2

Counts == (0 - 1)..MaxCount

A(name) == composer_action(Str(name), Undefined)
F(code) == composer_function(code, Undefined)
Nosave == [nosave |-> Bool(TRUE)]

Bodies == {F("flaky"), A(<<"a">>), composer_sequence(<<F("tick"), A(<<"a">>)>>),
           composer_try(F("fail"), F("caught"), Undefined),
           composer_let([y |-> Num(1)], <<composer_retain(F("flaky"), Undefined)>>),
           composer_let([y |-> Num(1)], <<composer_retain(A(<<"a">>), Undefined)>>)}

Finalizers == {F("noop"), F("caught"), A(<<"f">>), composer_sequence(<<>>)}

Handlers == {F("caught"), A(<<"h">>), F("zero")}

RetainOptions == {Undefined, [field |-> Str("x")], [catch |-> Bool(TRUE)], [filter |-> Fn("down")],
                  [field |-> Str("n"), catch |-> Bool(TRUE)]}

\* a function before two sibling lets and one after them; a let inside a let
Scoped ==
    {composer_sequence(<<F("tick"),
                         composer_let([v |-> Num(1)], <<F("tick"), A(<<"a">>)>>),
                         composer_let([w |-> Num(2)], <<F("flaky")>>),
                         F("tick")>>),
     composer_let([v |-> Num(1)], <<composer_let([w |-> Num(2)], <<F("flaky")>>), F("tick")>>)}

\* a name declared by two lets with a save-frame and a catch-frame between
\* them, and functions that assign it
Shadowed ==
    {composer_let([v |-> Num(1)],
                  <<composer_retain(composer_try(composer_let([v |-> Num(5), w |-> Num(2)], <<F(f), A(<<"a">>), F("bump")>>),
                                                 F("caught"), Undefined), Undefined),
                    F("bump")>>) : f \in {"bump", "forget", "flaky"}}
    \cup {composer_let([v |-> Num(1)],
                       <<composer_let([v |-> Num(5)],
                                      <<composer_try(F(f), F("caught"), Undefined), F("bump")>>),
                         F("bump")>>) : f \in {"bump", "forget"}}

LoopBodies == {F("tick"), A(<<"a">>), composer_sequence(<<F("tick"), A(<<"a">>)>>)}

Compositions ==
    {composer_sequence(<<A(<<"/", "_", "/", "e">>), composer_literal(Num(42), Undefined)>>),
     composer_literal([error |-> Num(0)], Undefined)}
    \cup {composer_finally(b, f, Undefined) : b \in Bodies, f \in Finalizers}
    \cup {composer_try(composer_finally(b, f, Undefined), h, Undefined) :
            b \in {F("flaky"), A(<<"a">>)}, f \in Finalizers, h \in {F("caught")}}
    \cup {composer_try(b, h, Undefined) : b \in Bodies, h \in Handlers}
    \cup {composer_retain(b, o) : b \in Bodies \cup {F("tick")}, o \in RetainOptions}
    \cup Scoped \cup Shadowed
    \cup {composer_try(b, F("caught"), Undefined) : b \in Scoped}
    \cup {composer_finally(b, F("noop"), Undefined) : b \in Scoped}
    \cup {composer_retry(Num(n), <<b>>) : n \in Counts, b \in {F("flaky"), A(<<"a">>)}}
    \cup {composer_repeat(Num(n), <<b>>) : n \in Counts, b \in LoopBodies}
    \cup {composer_if(F("positive"), F("tick"), b, o) : b \in {F("down"), A(<<"a">>)}, o \in {Undefined, Nosave}}
    \cup {composer_while(F("positive"), F("down"), o) : o \in {Undefined, Nosave}}
    \cup {composer_if(F("loud"), A(<<"a">>), F("tick"), o) : o \in {Undefined, Nosave}}
    \cup {composer_while(F("loud"), F("down"), o) : o \in {Undefined, Nosave}}
    \cup {composer_dowhile(F("down"), F("positive"), o) : o \in {Undefined, Nosave}}

Inputs == {[n |-> Num(1), x |-> Str("a")], EmptyObj}

\* no combinator, parseActionName or deploy has been called
LibraryIdle ==
    /\ built = Undefined /\ program = <<>> /\ steps = 0
    /\ given = Undefined /\ qualified = Undefined
    /\ attached = <<>> /\ index = 0 /\ issued = <<>> /\ phase = "idle"

Init ==
    /\ LibraryIdle
    /\ composition \in Compositions
    /\ fsm = compile(composition, <<>>)
    /\ params \in Inputs
    /\ state = Undefined
    /\ stack = <<>>
    /\ pc = "idle"
    /\ output = Undefined
    /\ trace = <<>>
    /\ emitted = 0
    /\ invocations = 0
    /\ u = Conf(Undefined, Undefined, <<>>)

Next ==
    \/ Invoke
    \/ Resume
    \/ StepChoice
    \/ StepTry
    \/ StepLet
    \/ StepExit
    \/ StepPush
    \/ StepPop
    \/ StepAction
    \/ StepLiteral
    \/ StepFunction
    \/ StepPass
    \/ Final

Spec == Init /\ [][Next]_vars


(***************************************************************************)
(* Properties.                                                             *)
(***************************************************************************)
Last == trace[Len(trace)]

IsPrefix(p, q) == Len(p) <= Len(q) /\ SubSeq(q, 1, Len(p)) = p

Max(a, b) == IF a >= b THEN a ELSE b

\* the invocation returned an action request
IsSuspension(v) == isObject(v) /\ DOMAIN v = {"action", "params", "state"}

\* C1 as stated: every host invocation that has returned emitted exactly one
\* action request, its return value being a suspension.
C1_ExactlyOneRequest ==
    pc \in {"suspended", "done"} => emitted = 1 /\ IsSuspension(output)

\* C1, amended: an invocation emits at most one action request.  It emits one
\* exactly when it returns at an action instruction, and then its return value
\* is the suspension {action, params, state: {$resume: {state, stack}}} of that
\* instruction; an invocation that ends at the terminal state emits none and
\* its return value is no suspension.
C1_AtMostOneRequest ==
    /\ emitted = (IF pc = "suspended" THEN 1 ELSE 0)
    /\ pc = "suspended" =>
          /\ IsSuspension(output)
          /\ Last.type = "action"
          /\ output.action = fsm[Last.at + 1].name
          /\ output.params = Last.params
          /\ DOMAIN output.state = {"$resume"}
          /\ output.state["$resume"].stack = Arr(Last.stack)
    /\ pc = "done" => ~IsSuspension(output)

\* C1's case: a resumed invocation returned one action request, and another ended at the terminal state
C1_Witness ==
    /\ pc = "suspended" /\ invocations = 2 /\ emitted = 1

\* C2: the run that is suspended at every action and resumed from the echoed
\* token is, after every action and at every step, in the configuration
\* (params, state, stack) of the run that is never suspended and takes the
\* action's result for params, followed by inspect(); their outputs are equal.
C2_ResumeEquivalent ==
    /\ pc = "running" => u = Conf(params, state, stack)
    /\ pc = "done" =>
          /\ u = Conf(params, state, stack)
          /\ output = (IF Truthy(Get(u.params, "error")) THEN u.params ELSE [params |-> u.params])

\* C2's case: a run was resumed twice, from tokens that held let, save and catch frames
C2_Witness ==
    /\ pc = "done" /\ invocations >= 3
    /\ \E k \in 1..Len(trace) :
          /\ trace[k].type = "resume"
          /\ \E i, j, l \in 1..Len(trace[k].stack) :
                /\ "let" \in DOMAIN trace[k].stack[i]
                /\ "catch" \in DOMAIN trace[k].stack[j]
                /\ "params" \in DOMAIN trace[k].stack[l]


(***************************************************************************)
(* Constructs of the compiled composition, and their executions in trace.  *)
(***************************************************************************)
\* the indices (from 1) of the try instructions, and the index (from 0) each catches at
Tries == {i \in 1..Len(fsm) : fsm[i].type = "try"}
CatchAt(i) == i - 1 + fsm[i].catch.num

\* the try instruction of a finally, of a try with a handler
IsFinally(i) == IsPrefix(fsm[i].path \o <<".finalizer">>, fsm[CatchAt(i) + 1].path)
IsTryCatch(i) == IsPrefix(fsm[i].path \o <<".handler">>, fsm[CatchAt(i) + 1].path)

\* the event belongs to the part of the composition at path R
InRegion(ev, R) == IsPrefix(R, ev.path)

\* the positions in trace where control enters the part at path R from outside
Entries(R) == {k \in 1..Len(trace) : InRegion(trace[k], R) /\ (k = 1 \/ ~InRegion(trace[k - 1], R))}

\* the position where control, having entered R at k, first is outside R (at most one)
Leave(k, R) ==
    {m \in (k + 1)..Len(trace) : ~InRegion(trace[m], R) /\ \A j \in k..(m - 1) : InRegion(trace[j], R)}

\* the executions of the try instruction i
Execs(i) == {k \in 1..Len(trace) : trace[k].at = i - 1 /\ trace[k].type = "try"}

\* the entry at k into the catch target of try i came through the catch frame, not through exit
ViaCatch(i, k) == k > 1 /\ ~(trace[k - 1].type = "exit" /\ trace[k - 1].at = CatchAt(i) - 1)

\* the error field of a value handed to inspect(), Undefined if it has none
ErrorOf(raw) == Get(raw, "error")

\* the positions (top first) of the catch frames of a stack
CatchFrames(k) == {j \in 1..Len(k) : "catch" \in DOMAIN k[j]}
Nearest(k) == CHOOSE j \in CatchFrames(k) : \A l \in CatchFrames(k) : j <= l

\* the run ended at the terminal state
Terminated == pc = "done" /\ IsUndefined(state)

\* C3: in every execution of finally(body, finalizer) the finalizer is entered
\* exactly once, at its first instruction: at any time the entries into the
\* finalizer number the executions of the try instruction, or one less while
\* the body runs, and they are equal when the run has ended.
C3_FinalizerOnce ==
    \A i \in Tries : IsFinally(i) =>
        LET R == fsm[i].path \o <<".finalizer">>
            t == Cardinality(Execs(i))
            f == Cardinality(Entries(R))
        IN /\ f <= t /\ t <= f + 1
           /\ Terminated => t = f
           /\ \A k \in Entries(R) : trace[k].at = CatchAt(i)

\* C3's case: a finally was executed twice in a run that ended, its finalizer
\* entered once after the exit and once through the catch frame
C3_Witness ==
    /\ Terminated
    /\ \E i \in Tries :
          /\ IsFinally(i)
          /\ Cardinality(Execs(i)) = 2
          /\ \E k1, k2 \in Entries(fsm[i].path \o <<".finalizer">>) : ViaCatch(i, k1) /\ ~ViaCatch(i, k2)

\* C4 as stated: when the body of a finally fails with error e, then once the
\* finalizer has run the error e goes to the nearest enclosing handler, or,
\* with none, the run ends with params {error: e}.
C4_ErrorRepropagates ==
    \A i \in Tries : IsFinally(i) =>
        LET R == fsm[i].path \o <<".finalizer">>
        IN \A k \in Entries(R) : ViaCatch(i, k) =>
              LET e == ErrorOf(trace[k].params)
                  K == trace[k].stack
              IN /\ \A m \in Leave(k, R) :
                        /\ CatchFrames(K) # {}
                        /\ trace[m].at = K[Nearest(K)].catch.num
                        /\ trace[m].params = [error |-> e]
                 /\ (Leave(k, R) = {} /\ Terminated) => params = [error |-> e]

\* C4, amended: when the body of a finally fails with error e, the finalizer is
\* entered with params exactly {error: e}.  Once the finalizer has run, an
\* error goes upward exactly when the finalizer's own output has a defined
\* error field: then params is reduced to that error and control is at the
\* nearest enclosing handler, the frames above it removed, or, with no handler,
\* the run ends with params {error: ...} and an empty stack.  Otherwise the
\* error is dropped and the run goes on after the finally, with the stack the
\* try instruction found.
C4_ErrorAfterFinalizer ==
    \A i \in Tries : IsFinally(i) =>
        LET R == fsm[i].path \o <<".finalizer">>
        IN \A k \in Entries(R) : ViaCatch(i, k) =>
              LET K == trace[k].stack
              IN /\ ~IsUndefined(ErrorOf(trace[k - 1].raw))
                 /\ trace[k].params = [error |-> ErrorOf(trace[k - 1].raw)]
                 /\ \A m \in Leave(k, R) :
                        LET q == trace[m].params
                        IN /\ IF ~IsUndefined(ErrorOf(q))
                              THEN /\ CatchFrames(K) # {}
                                   /\ trace[m].at = K[Nearest(K)].catch.num
                                   /\ trace[m].stack = SubSeq(K, Nearest(K) + 1, Len(K))
                                   /\ q = [error |-> ErrorOf(q)]
                              ELSE trace[m].stack = K
                           /\ ~IsUndefined(trace[m - 1].raw) =>
                                 (IsUndefined(ErrorOf(trace[m - 1].raw)) <=> IsUndefined(ErrorOf(q)))
                 /\ (Leave(k, R) = {} /\ Terminated /\ ~IsUndefined(ErrorOf(params))) =>
                        /\ CatchFrames(K) = {}
                        /\ params = [error |-> ErrorOf(params)]
                        /\ stack = <<>>

\* C4's case: the body of a finally inside a try failed, and after the
\* finalizer the error reached the handler of the try; in another finally the
\* finalizer dropped the error
C4_Witness ==
    \E i \in Tries :
        /\ IsFinally(i)
        /\ \E k \in Entries(fsm[i].path \o <<".finalizer">>) :
              /\ ViaCatch(i, k)
              /\ \E m \in Leave(k, fsm[i].path \o <<".finalizer">>) :
                    /\ ~IsUndefined(ErrorOf(trace[m].params))
                    /\ trace[m].type = "function"
                    /\ IsPrefix(<<"[0]", ".handler">>, trace[m].path)


\* the exit instruction of the try at i, and the pass that ends a try with a handler (indices from 0)
ExitAt(i) == CatchAt(i) - 1
JoinAt(i) == ExitAt(i) + fsm[ExitAt(i) + 1].next.num

\* C5: for try(body, handler).  When the body ends without error its exit is
\* followed by the pass that ends the construct, with the params the body
\* left: no handler instruction runs.  When an instruction of the body, or the
\* result of an action of the body, has a defined error field e and the try's
\* frame is the nearest catch frame, the handler's first instruction is next
\* and finds params exactly {error: e}; the handler is entered in no other way,
\* and when it ends without error the pass that ends the construct is next.
C5_TryHandler ==
    \A i \in Tries : IsTryCatch(i) =>
        LET P == fsm[i].path
            H == P \o <<".handler">>
        IN /\ \A k \in 1..Len(trace) : (trace[k].type = "exit" /\ trace[k].at = ExitAt(i)) =>
                 /\ k < Len(trace) =>
                       /\ trace[k + 1].at = JoinAt(i)
                       /\ trace[k + 1].type = "pass" /\ trace[k + 1].path = P
                       /\ trace[k + 1].params = trace[k].params
                 /\ (k = Len(trace) /\ pc = "running") =>
                       state = Num(JoinAt(i)) /\ params = trace[k].params
           /\ \A k \in Entries(H) :
                 /\ k > 1
                 /\ trace[k].at = CatchAt(i)
                 /\ IsPrefix(P \o <<".body">>, trace[k - 1].path)
                 /\ ~IsUndefined(ErrorOf(trace[k - 1].raw))
                 /\ trace[k].params = [error |-> ErrorOf(trace[k - 1].raw)]
                 /\ \A m \in Leave(k, H) :
                       IsUndefined(ErrorOf(trace[m].params)) => trace[m].at = JoinAt(i)
           /\ \A j \in 1..Len(trace) :
                 ( /\ IsPrefix(P \o <<".body">>, trace[j].path)
                   /\ ~IsUndefined(ErrorOf(trace[j].raw))
                   /\ CatchFrames(trace[j].stack) # {}
                   /\ trace[j].stack[Nearest(trace[j].stack)].catch = Num(CatchAt(i)) ) =>
                 /\ j < Len(trace) =>
                       /\ trace[j + 1].at = CatchAt(i)
                       /\ trace[j + 1].params = [error |-> ErrorOf(trace[j].raw)]
                 /\ (j = Len(trace) /\ pc = "running") =>
                       state = Num(CatchAt(i)) /\ params = [error |-> ErrorOf(trace[j].raw)]

\* C5's case: in one run a try's handler was entered after an action of the
\* body gave an error, below frames pushed inside the body; in the handler's
\* region the run went on to the end
C5_Witness ==
    /\ Terminated
    /\ \E i \in Tries :
          /\ IsTryCatch(i)
          /\ \E k \in Entries(fsm[i].path \o <<".handler">>) :
                /\ trace[k - 1].type \in {"resume", "function"}
                /\ Len(trace[k - 1].stack) >= 3
                /\ Leave(k, fsm[i].path \o <<".handler">>) # {}

\* C5's other case: a try's body ended without error and the handler was skipped
C5_SkipWitness ==
    /\ Terminated
    /\ \E i \in Tries :
          /\ IsTryCatch(i)
          /\ Entries(fsm[i].path \o <<".handler">>) = {}
          /\ \E k \in 1..Len(trace) : trace[k].type = "exit" /\ trace[k].at = ExitAt(i)

\* C6 as stated: at the terminal state the conductor returns params itself
\* exactly when params has an error field, and {params} exactly when it has none.
C6_TerminalOutput ==
    Terminated =>
        IF "error" \in DOMAIN params THEN output = params ELSE output = [params |-> params]

\* C7: when the conductor is called again with an action result whose error
\* field is defined, then before any instruction runs params is exactly
\* {error: that error}, the frames from the top of the token's stack down to
\* and including the nearest catch frame are gone and state is that frame's
\* index; with no catch frame the stack is empty and state is undefined.
C7_ResumedError ==
    (pc = "running" /\ Len(trace) > 0 /\ Last.type = "resume" /\ ~IsUndefined(ErrorOf(Last.raw))) =>
        LET K == Last.stack
        IN /\ params = [error |-> Last.raw.error]
           /\ IF CatchFrames(K) = {}
              THEN stack = <<>> /\ IsUndefined(state)
              ELSE /\ stack = SubSeq(K, Nearest(K) + 1, Len(K))
                   /\ state = K[Nearest(K)].catch

\* C7's case: resumed with an error and a token whose stack holds a save frame
\* and a let frame above a catch frame
C7_Witness ==
    /\ pc = "running" /\ Len(trace) > 0 /\ Last.type = "resume" /\ ~IsUndefined(ErrorOf(Last.raw))
    /\ Len(Last.stack) >= 3
    /\ CatchFrames(Last.stack) # {}
    /\ Nearest(Last.stack) >= 3
    /\ Len(stack) < Len(Last.stack)

\* C7's other case: resumed with an error and a token whose stack holds frames but no catch frame
C7_NoHandlerWitness ==
    /\ pc = "running" /\ Len(trace) > 0 /\ Last.type = "resume" /\ ~IsUndefined(ErrorOf(Last.raw))
    /\ Len(Last.stack) >= 1
    /\ CatchFrames(Last.stack) = {}


\* the params after the instruction at position j of trace
After(j) == IF j < Len(trace) THEN trace[j + 1].params ELSE params

\* the executions of the pop instruction of a retain
Collects ==
    {j \in 1..Len(trace) : trace[j].type = "pop" /\ Truthy(fsm[trace[j].at + 1].collect)
                           /\ (j < Len(trace) \/ pc \in {"running", "done"})}

\* the execution of the push that the pop at position j of trace matches
PushOf(j) ==
    CHOOSE i \in 1..(j - 1) :
        /\ trace[i].type = "push" /\ trace[i].path = trace[j].path
        /\ Len(trace[i].stack) = Len(trace[j].stack) - 1
        /\ \A l \in (i + 1)..(j - 1) :
              ~(trace[l].type = "push" /\ trace[l].path = trace[j].path
                /\ Len(trace[l].stack) = Len(trace[j].stack) - 1)

\* C8: when the body of retain(b) has run on p without error, the pop of the
\* retain leaves params {params: p, result: the body's output}, where p is the
\* params the push found, which are the params the body's first instruction
\* found; with option field: 'x' the saved side is p.x.  This holds in runs
\* suspended and resumed inside the body as well.
C8_RetainLaw ==
    \A j \in Collects :
        LET i == PushOf(j)
            field == fsm[trace[i].at + 1].field
            p == trace[i].params
        IN /\ \E l \in 1..(j - 1) : trace[l].type = "push" /\ trace[l].path = trace[j].path
           /\ trace[i + 1].params = p
           /\ IsPrefix(trace[i].path \o <<".body">>, trace[i + 1].path)
           /\ After(j) = [params |-> IF Truthy(field) THEN Get(p, field.str) ELSE p,
                          result |-> trace[j].params]

\* C8's case: a retain with field 'x' whose body held an action ended: the run
\* was resumed inside the body and the output pairs p.x with the body's output
C8_Witness ==
    /\ Terminated /\ invocations = 2
    /\ composition = composer_retain(composer_sequence(<<F("tick"), A(<<"a">>)>>), [field |-> Str("x")])
    /\ output = [params |-> [params |-> Str("a"), result |-> [n |-> Num(5)]]]

\* the composition is retry(n, ...), repeat(n, ...)
IsRetry == Len(fsm) >= 2 /\ fsm[2].type = "function" /\ fsm[2].exec.code = Str("retry_1")
IsRepeat == Len(fsm) >= 3 /\ fsm[3].type = "function" /\ fsm[3].exec.code = Str("repeat_1")
CountOf == composition[1].declarations.count.num

\* the path of the finally that runs one attempt of a retry, the executions of
\* its try instruction, and the executions of the function that receives the
\* attempt's result
AttemptPath == <<"[0]", ".body", "[1]", ".body", "[0]", ".finalizer", "[0]", ".body", "[0]">>
Attempts == {k \in 1..Len(trace) : trace[k].type = "try" /\ trace[k].path = AttemptPath}
AttemptResults ==
    {k \in 1..Len(trace) : trace[k].type = "function" /\ trace[k].path = AttemptPath \o <<".finalizer", "[0]">>}

\* C9 as stated: retry(n, b) executes b at most n+1 times, for every count n
C9_AtMostNPlus1 ==
    IsRetry => Cardinality(Attempts) <= CountOf + 1

\* C9, amended: for every integer count n, retry(n, b) executes b at most
\* max(n, 0) + 1 times, so once for a negative n.  Every attempt finds the
\* params the retry found.  An attempt follows only attempts whose result has
\* a defined error field; when the run has ended, params is the result of the
\* last attempt, and if that is an error there were max(n, 0) + 1 attempts.
C9_RetryBound ==
    IsRetry =>
        LET input == trace[1].params
        IN /\ Cardinality(Attempts) <= Max(CountOf, 0) + 1
           /\ \A k \in Attempts :
                 /\ trace[k].params = input
                 /\ k < Len(trace) =>
                       /\ trace[k + 1].params = input
                       /\ IsPrefix(AttemptPath \o <<".body">>, trace[k + 1].path)
           /\ \A r1, r2 \in AttemptResults : r1 < r2 => ~IsUndefined(ErrorOf(trace[r1].params))
           /\ Cardinality(AttemptResults) <= Cardinality(Attempts)
           /\ Terminated =>
                 /\ Cardinality(AttemptResults) = Cardinality(Attempts)
                 /\ \E r \in AttemptResults :
                       /\ \A r2 \in AttemptResults : r2 <= r
                       /\ params = trace[r].params
                       /\ ~IsUndefined(ErrorOf(trace[r].params)) =>
                             Cardinality(Attempts) = Max(CountOf, 0) + 1

\* C9's case: a retry with the largest count ended after every attempt failed, the
\* attempts being actions run by the host
C9_Witness ==
    /\ IsRetry /\ Terminated
    /\ CountOf = MaxCount
    /\ Cardinality(Attempts) = MaxCount + 1
    /\ invocations = MaxCount + 2
    /\ ~IsUndefined(ErrorOf(params))

\* C9's other case: a retry ended with the result of an attempt that succeeded after a failed one
C9_SuccessWitness ==
    /\ IsRetry /\ Terminated
    /\ Cardinality(Attempts) = 2
    /\ IsUndefined(ErrorOf(params))

\* the body of a repeat, the executions of the push of its while, and whether
\* some instruction or action has given an error
RepeatBody == <<"[0]", ".body", "[0]", ".body">>
LoopPushes == {k \in 1..Len(trace) : trace[k].type = "push" /\ trace[k].path = <<"[0]", ".body", "[0]">>}
Failed == \E k \in 1..Len(trace) : ~IsUndefined(ErrorOf(trace[k].raw))
LastBefore(S, k) == CHOOSE i \in S : i < k /\ \A l \in S : l < k => l <= i

C10_ZeroWitness ==
    /\ IsRepeat /\ Terminated
    /\ CountOf < 0
    /\ Entries(RepeatBody) = {}


\* the let instructions whose body holds the instruction at path
LetsAround(path) ==
    {i \in 1..Len(fsm) : fsm[i].type = "let" /\ IsPrefix(fsm[i].path \o <<".body">>, path)}

\* C11: the names in the environment of a function instruction are exactly
\* the names declared by the lets whose body holds the instruction: a name is
\* bound in no function before the let, after its exit, in a handler or
\* finalizer outside it that an error of the body leads to, or in a sibling let.
C11_LetScope ==
    \A k \in 1..Len(trace) :
        trace[k].type = "function" =>
            DOMAIN env(trace[k].stack) = UNION {DOMAIN fsm[i].let : i \in LetsAround(trace[k].path)}

\* C11's case: in try(seq(f, let v, let w, f), handler) the functions in the
\* bodies of both lets have run, the one in the second failed, and the handler
\* outside the lets has run
C11_Witness ==
    /\ Terminated
    /\ Len(fsm) > 0 /\ fsm[1].type = "try"
    /\ \E k1, k2, k3 \in 1..Len(trace) :
          /\ k1 < k2 /\ k2 < k3
          /\ trace[k1].type = "function" /\ DOMAIN env(trace[k1].stack) = {"v"}
          /\ trace[k2].type = "function" /\ DOMAIN env(trace[k2].stack) = {"w"}
          /\ ~IsUndefined(ErrorOf(trace[k2].raw))
          /\ trace[k3].type = "function" /\ IsPrefix(<<"[0]", ".handler">>, trace[k3].path)
          /\ env(trace[k3].stack) = EmptyObj


\* the paths of the parts of the composition
Regions == {fsm[i].path : i \in 1..Len(fsm)}

\* no instruction or action result from position k to position m of trace had an error
NoError(k, m) == \A j \in k..m : IsUndefined(ErrorOf(trace[j].raw))

\* the instructions from k to m that add a frame, that remove one
Pushes(k, m) == {j \in k..m : trace[j].type \in {"push", "try", "let"}}
Pops(k, m) == {j \in k..m : trace[j].type \in {"pop", "exit"}}

\* the same frames in the same order, but for the values of the let-bound names
SameFrames(s, t) ==
    /\ Len(s) = Len(t)
    /\ \A i \in 1..Len(s) :
          IF "let" \in DOMAIN s[i]
          THEN "let" \in DOMAIN t[i] /\ DOMAIN s[i].let = DOMAIN t[i].let
          ELSE s[i] = t[i]

\* C13: when control has entered a part of the composition (a retain, if,
\* while, dowhile, let, try or finally, or any other node) and leaves it with
\* no error on the way, the instructions in between that push a frame (push,
\* try, let) are as many as those that remove one (pop, exit), and the stack
\* has the frames it had on entry, in the same order, the values of let-bound
\* names apart; the same when the run ends inside the part.
C13_Balanced ==
    \A R \in Regions : \A k \in Entries(R) :
        /\ \A m \in Leave(k, R) :
              NoError(k, m - 1) =>
                  /\ SameFrames(trace[k].stack, trace[m].stack)
                  /\ Cardinality(Pushes(k, m - 1)) = Cardinality(Pops(k, m - 1))
        /\ (Leave(k, R) = {} /\ Terminated /\ NoError(k, Len(trace))) =>
              /\ SameFrames(trace[k].stack, stack)
              /\ Cardinality(Pushes(k, Len(trace))) = Cardinality(Pops(k, Len(trace)))

\* C13's case: control left without error a construct that it had entered
\* with a frame on the stack, after a suspension inside the construct and
\* several pushes and pops
C13_Witness ==
    \E R \in Regions : \E k \in Entries(R) : \E m \in Leave(k, R) :
        /\ NoError(k, m - 1)
        /\ Len(trace[k].stack) >= 1
        /\ Cardinality(Pushes(k, m - 1)) >= 2
        /\ \E j \in k..(m - 1) : trace[j].type = "resume"
        /\ \E j \in k..(m - 1) : trace[j].type = "choice"

\* the instruction types that push the frame that the exit, the pop removes
Opens(type) == IF type = "exit" THEN {"try", "let"} ELSE {"push"}

\* the executions of the instructions with the path of the one executed at
\* j that push a frame onto a stack of the height the one at j leaves
Openers(j) ==
    {i \in 1..(j - 1) : /\ trace[i].type \in Opens(trace[j].type)
                        /\ trace[i].path = trace[j].path
                        /\ Len(trace[i].stack) = Len(trace[j].stack) - 1}

\* C14: every exit and every pop finds the stack non-empty, so that the
\* internal error 'attempted to pop from an empty stack' is never returned,
\* and the frame on top is the one that the latest execution of its matching
\* try or let (for an exit) or push (for a pop) put there, on the frames that
\* were below it then; only values of let-bound names may have changed.
C14_TopFrameMatches ==
    \A j \in 1..Len(trace) :
        trace[j].type \in {"exit", "pop"} =>
            /\ Len(trace[j].stack) > 0
            /\ Openers(j) # {}
            /\ LET i == CHOOSE o \in Openers(j) : \A l \in Openers(j) : l <= o
                   top == Head(trace[j].stack)
               IN /\ SameFrames(trace[j].stack, trace[i + 1].stack)
                  /\ Tail(trace[i + 1].stack) = trace[i].stack
                  /\ trace[i].type = "try" => top = [catch |-> Num(trace[i].at + fsm[trace[i].at + 1].catch.num)]
                  /\ trace[i].type = "let" => DOMAIN top = {"let"}
                  /\ trace[i].type = "push" => DOMAIN top \subseteq {"params"}

\* C14's case: an exit and a pop have run after a resume, each on a stack of
\* several frames, in a run in which an error had unwound the stack before
C14_Witness ==
    \E j1, j2, e \in 1..Len(trace) :
        /\ trace[j1].type = "exit" /\ trace[j2].type = "pop"
        /\ Len(trace[j1].stack) >= 2 /\ Len(trace[j2].stack) >= 2
        /\ e < j1 /\ e < j2
        /\ ~IsUndefined(ErrorOf(trace[e].raw))
        /\ \E r \in 1..Len(trace) : trace[r].type = "resume" /\ r < j1 /\ r < j2

\* the instructions of the construct at path P itself, of the given types
Own(P, types) == {i \in 1..Len(fsm) : fsm[i].path = P /\ fsm[i].type \in types}

\* the first instruction of the part at path P
First(P) == CHOOSE i \in 1..Len(fsm) : IsPrefix(P, fsm[i].path) /\ \A l \in 1..(i - 1) : ~IsPrefix(P, fsm[l].path)

\* the choice at path P is that of an if or a while: a dowhile starts with its body
IsIfOrWhile(P) == ~IsPrefix(P \o <<".body">>, fsm[First(P)].path)

\* the executions of the choice of an if or a while after which an instruction has run
Choices ==
    {c \in 1..Len(trace) : /\ trace[c].type = "choice" /\ IsIfOrWhile(trace[c].path)
                           /\ (c < Len(trace) \/ pc = "done")}

\* the execution of the push of the construct whose choice is executed at c
TestStart(c) ==
    CHOOSE t \in 1..(c - 1) :
        /\ trace[t].type = "push" /\ trace[t].path = trace[c].path
        /\ \A l \in (t + 1)..(c - 1) : ~(trace[l].type = "push" /\ trace[l].path = trace[c].path)

\* params as inspect() leaves a value without error
Wrapped(v) == IF isObject(v) THEN v ELSE [value |-> v]

\* C20: in an if or a while compiled without nosave, the choice is followed
\* by the pop of the construct, and the instruction after that pop (the first
\* of the selected branch or of the loop body, or of the code after a while
\* whose test was false) finds the params the push of the construct found
\* before the test ran, whatever the test left in params.  With nosave the
\* construct has no push and no pop and the instruction after the choice
\* finds the params the choice found, which are the output of the test.
C20_TestFrame ==
    \A c \in Choices :
        LET P == trace[c].path
        IN IF Own(P, {"push"}) # {}
           THEN /\ trace[c + 1].type = "pop" /\ trace[c + 1].path = P
                /\ (c + 1 < Len(trace) \/ pc = "done") => After(c + 1) = trace[TestStart(c)].params
                /\ trace[TestStart(c) + 1].params = trace[TestStart(c)].params
           ELSE /\ Own(P, {"push", "pop"}) = {}
                /\ After(c) = trace[c].params
                /\ trace[c - 1].type = "function" => trace[c].params = Wrapped(trace[c - 1].raw)

\* C20's case: a while without nosave whose test leaves fields of its own in
\* params has run its body and ended, and the body and the code after the
\* loop found params without those fields
C20_Witness ==
    /\ Terminated
    /\ \E c1, c2 \in Choices :
          /\ c1 < c2 /\ trace[c1].at = trace[c2].at
          /\ Own(trace[c1].path, {"push"}) # {}
          /\ "seen" \in DOMAIN trace[c1].params
          /\ Truthy(Get(trace[c1].params, "value")) /\ ~Truthy(Get(trace[c2].params, "value"))
          /\ "seen" \notin DOMAIN After(c1 + 1)
          /\ "seen" \notin DOMAIN After(c2 + 1)

\* C20's other case: an if with nosave has run a branch on the output of the test
C20_NosaveWitness ==
    /\ Terminated
    /\ \E c \in Choices :
          /\ Own(trace[c].path, {"push", "pop"}) = {}
          /\ "seen" \in DOMAIN After(c)
          /\ c < Len(trace) /\ trace[c + 1].type = "action"

\* the frames of stack k whose let defines name
Defining(k, name) == {i \in 1..Len(k) : isObject(Get(k[i], "let")) /\ name \in DOMAIN k[i].let}

\* the topmost of them
Topmost(k, name) == CHOOSE i \in Defining(k, name) : \A l \in Defining(k, name) : i <= l

\* stack k with the values of e written, each to the topmost frame that defines its name
WrittenBack(k, e) ==
    [i \in 1..Len(k) |->
        IF isObject(Get(k[i], "let"))
        THEN [k[i] EXCEPT !.let = [name \in DOMAIN k[i].let |->
                                      IF name \in DOMAIN e /\ Topmost(k, name) = i
                                      THEN e[name] ELSE k[i].let[name]]]
        ELSE k[i]]

\* the stack that the instruction after the one executed at j finds
StackAfter(j) == IF j < Len(trace) THEN trace[j + 1].stack ELSE stack

\* the frames of s are the lowest frames of t
IsSuffix(s, t) == Len(s) <= Len(t) /\ s = SubSeq(t, Len(t) - Len(s) + 1, Len(t))

\* the function instructions executed, and what their evaluation could do
Calls == {k \in 1..Len(trace) : trace[k].type = "function" /\ (k < Len(trace) \/ pc = "done")}
OutcomesAt(k) == Outcomes(fsm[trace[k].at + 1].exec.code.str, trace[k].params, env(trace[k].stack))

\* the function executed at k saw each name with the value of the topmost frame
\* that defines it, and the frames that are left after it are those of the stack
\* it found with each name's new value in that frame and nothing else changed
TopmostOnly(k) ==
    /\ \A name \in DOMAIN env(trace[k].stack) :
          env(trace[k].stack)[name] = trace[k].stack[Topmost(trace[k].stack, name)].let[name]
    /\ \E o \in OutcomesAt(k) : IsSuffix(StackAfter(k), WrittenBack(trace[k].stack, o.env))

\* C21: a function instruction sees each name with the value that the
\* topmost let frame defining it holds, and after the call the new value of
\* the name is in that frame only: the lower let frames that define the name,
\* the save-frames and the catch-frames are as they were.
C21_TopmostOnly == \A k \in Calls : TopmostOnly(k)

\* the same of the functions that leave in every name a value that JSON can hold
C21_TopmostOnlyWritable ==
    \A k \in Calls : (\A o \in OutcomesAt(k) : Unwritable(o.env) = {}) => TopmostOnly(k)

\* C21's case: a function has run on a stack where two let frames define v
\* with a save-frame and a catch-frame between them, and has changed v
C21_Witness ==
    \E k \in Calls :
        /\ Cardinality(Defining(trace[k].stack, "v")) = 2
        /\ \E i \in 1..Len(trace[k].stack) : ~IsUndefined(Get(trace[k].stack[i], "catch"))
        /\ \E i \in 1..Len(trace[k].stack) : ~IsUndefined(Get(trace[k].stack[i], "params"))
        /\ Len(StackAfter(k)) = Len(trace[k].stack)
        /\ StackAfter(k) # trace[k].stack

\* C21's failing case: a function has set v to undefined and the frame that
\* defines v still holds the value it had
C21_NotWritten ==
    \E k \in Calls :
        /\ \E o \in OutcomesAt(k) : Unwritable(o.env) # {}
        /\ Cardinality(Defining(trace[k].stack, "v")) = 2
        /\ Defining(StackAfter(k), "v") # {}
        /\ StackAfter(k)[1].let = trace[k].stack[Topmost(trace[k].stack, "v")].let

\* the executions of the first instruction of the handler or finalizer of try
\* instruction i that an error led to
Caught(i) ==
    {k \in 1..Len(trace) : trace[k].at = CatchAt(i) /\ trace[k].type # "resume" /\ ViaCatch(i, k)}

\* the latest execution of try instruction i before k
Entered(i, k) == CHOOSE t \in Execs(i) : t < k /\ \A l \in Execs(i) : l < k => l <= t

\* C23: when an error is caught, the first instruction of the handler or
\* finalizer finds the frames that the try instruction found when it was
\* entered, in their order: the catch frame that the try pushed and every
\* frame above it are gone and no frame below it is.  The frames hold what
\* they held but for the values of let-bound names that functions have
\* assigned since; the unwinding itself alters no frame.
C23_CaughtStack ==
    \A i \in Tries : \A k \in Caught(i) :
        /\ \E t \in Execs(i) : t < k
        /\ LET t == Entered(i, k)
           IN /\ trace[t + 1].stack = <<[catch |-> Num(CatchAt(i))]>> \o trace[t].stack
              /\ SameFrames(trace[k].stack, trace[t].stack)
              /\ trace[k - 1].type # "function" =>
                    /\ IsSuffix(trace[k].stack, trace[k - 1].stack)
                    /\ Len(trace[k - 1].stack) > Len(trace[k].stack)
              /\ (\A l \in t..(k - 1) : trace[l].type # "function") => trace[k].stack = trace[t].stack

\* C23's case: an error raised under let frames pushed after the try was
\* caught, and the handler found the two frames, a save-frame and a let
\* frame, that the try had found
C23_Witness ==
    \E i \in Tries : \E k \in Caught(i) :
        /\ Len(trace[k].stack) >= 2
        /\ Len(trace[k - 1].stack) >= Len(trace[k].stack) + 2
        /\ \E j \in 1..Len(trace[k].stack) : "params" \in DOMAIN trace[k].stack[j]
        /\ \E j \in 1..Len(trace[k].stack) : "let" \in DOMAIN trace[k].stack[j]

\* C23's other case: the error was the result of an action and was caught on
\* resuming, under a save-frame pushed after the try
C23_ResumeWitness ==
    \E i \in Tries : \E k \in Caught(i) :
        /\ trace[k - 1].type = "resume"
        /\ \E j \in 1..Len(trace[k - 1].stack) : "params" \in DOMAIN trace[k - 1].stack[j]
        /\ Len(trace[k - 1].stack) >= Len(trace[k].stack) + 2

\* the step loop is at the final state, or has returned from it
AtFinalState == pc \in {"running", "done"} /\ IsUndefined(state)

\* C24: in a run started by a fresh invocation and resumed with the tokens
\* the conductor returned, the stack is empty whenever the final state is
\* reached, with a result or with an error that nothing caught.
C24_EmptyAtEnd == AtFinalState => stack = <<>>

\* C24's case: an error that nothing caught has ended a run at an
\* instruction that found two frames or more on the stack
C24_Witness ==
    /\ Terminated /\ Len(trace) > 0
    /\ ~IsUndefined(Get(output, "error"))
    /\ Len(trace[Len(trace)].stack) >= 2
    /\ stack = <<>>

\* C24's other case: a run that had three frames on the stack, was suspended
\* and resumed, has ended with a result
C24_SuccessWitness ==
    /\ Terminated /\ invocations >= 2
    /\ IsUndefined(Get(output, "error"))
    /\ \E k \in 1..Len(trace) : Len(trace[k].stack) >= 3
    /\ stack = <<>>

(***************************************************************************)
(* A host that calls the conductor with params of its own making, a        *)
(* $resume field that the conductor never emitted included.                *)
(***************************************************************************)
\* the $resume values the host makes up: no objects, objects whose state or
\* stack has the wrong type, and objects that pass the conductor's tests
MaxForged == 1

RefusedTokens ==
    {Num(3), Arr(<<>>),
     [state |-> Str("1"), stack |-> Arr(<<>>)],
     [state |-> Bool(TRUE), stack |-> Str("x")],
     [state |-> Num(0)],
     [stack |-> EmptyObj]}

ForgedTokens ==
    RefusedTokens
    \cup {[state |-> Num(n), stack |-> Arr(k)] : n \in {1, 99}, k \in {<<>>, <<[catch |-> Num(99)]>>}}
    \cup {[stack |-> Arr(<<[catch |-> Num(1)]>>)]}

HostParams ==
    {Put([n |-> Num(1)], "$resume", t) : t \in ForgedTokens}
    \cup {Put([error |-> Str("e")], "$resume", t) : t \in {[state |-> Num(0)], [state |-> Num(1), stack |-> Arr(<<>>)]}}

HostCompositions ==
    {composer_sequence(<<A(<<"/", "_", "/", "e">>), composer_literal(Num(42), Undefined)>>),
     composer_try(A(<<"a">>), F("caught"), Undefined),
     composer_retain(composer_sequence(<<F("tick"), A(<<"a">>)>>), [field |-> Str("x")]),
     composer_let([v |-> Num(1)], <<composer_if(F("positive"), F("tick"), A(<<"a">>), Undefined)>>)}

\* the host calls with params of its own
Call ==
    /\ pc \in {"idle", "suspended"}
    /\ Cardinality({k \in 1..Len(trace) : trace[k].type = "call"}) < MaxForged
    /\ \E p \in HostParams :
          /\ Enter(p)
          /\ trace' = Append(trace, [at |-> 0, type |-> "call", path |-> <<>>, params |-> p,
                                     stack |-> stack, raw |-> Undefined])
    /\ UNCHANGED u

\* const json = fsm[state] is undefined and json.path throws a TypeError,
\* which the catch of main hands to internalError
FetchFails ==
    /\ pc = "running" /\ IsNumber(state) /\ state.num \notin 0..(Len(fsm) - 1)
    /\ output' = internalError([message |-> Str("Cannot read property 'path' of undefined")])
    /\ pc' = "done"
    /\ UNCHANGED <<composition, fsm, params, state, stack, trace, emitted, invocations, u, library>>

InitHost ==
    /\ LibraryIdle
    /\ composition \in HostCompositions
    /\ fsm = compile(composition, <<>>)
    /\ params \in Inputs
    /\ state = Undefined
    /\ stack = <<>>
    /\ pc = "idle"
    /\ output = Undefined
    /\ trace = <<>>
    /\ emitted = 0
    /\ invocations = 0
    /\ u = Conf(Undefined, Undefined, <<>>)

NextHost ==
    \/ Invoke
    \/ Resume
    \/ Call
    \/ FetchFails
    \/ StepChoice
    \/ StepTry
    \/ StepLet
    \/ StepExit
    \/ StepPush
    \/ StepPop
    \/ StepAction
    \/ StepLiteral
    \/ StepFunction
    \/ StepPass
    \/ Final

SpecHost == InitHost /\ [][NextHost]_vars

\* C15: whenever the step loop is about to fetch an instruction, state is
\* undefined or an index of the FSM, also in an invocation resumed from a
\* $resume value that passed the tests of the conductor.
C15_StateValid ==
    pc = "running" => IsUndefined(state) \/ (IsNumber(state) /\ state.num \in 0..(Len(fsm) - 1))

\* the $resume value is one the conductor must refuse, and the message for it
NotAnObject(t) == ~isObject(t)
BadState(t) == ~IsUndefined(Get(t, "state")) /\ ~IsNumber(Get(t, "state"))
BadStack(t) == ~IsArray(Get(t, "stack"))
Malformed(t) == ~IsUndefined(t) /\ (NotAnObject(t) \/ BadState(t) \/ BadStack(t))
Refusal(t) ==
    IF NotAnObject(t) THEN Str("The type of optional $resume parameter must be object")
    ELSE IF BadState(t) THEN Str("The type of optional $resume.state parameter must be number")
    ELSE Str("The type of $resume.stack must be an array")

\* C16: a call whose $resume is present but no object, or has a state that is
\* neither undefined nor a number, or a stack that is no array, ends with
\* code 400 and the message for the defect: no instruction is executed after
\* the call, no action request is emitted, and params, state and stack are
\* not touched, whether or not params has an error field.
C16_BadResumeRejected ==
    (Len(trace) > 0 /\ Last.type = "call" /\ Malformed(Get(Last.params, "$resume"))) =>
        /\ pc = "done"
        /\ output = [code |-> Num(400), error |-> Refusal(Last.params["$resume"])]
        /\ emitted = 0
        /\ stack = Last.stack

\* C16's case: the host answered an action request with params that have an
\* error field and a $resume whose stack is no array, and got code 400
C16_Witness ==
    /\ Len(trace) > 1 /\ Last.type = "call"
    /\ trace[Len(trace) - 1].type = "action"
    /\ ~IsUndefined(Get(Last.params, "error"))
    /\ isObject(Last.params["$resume"]) /\ BadStack(Last.params["$resume"])
    /\ output.code = Num(400)

(***************************************************************************)
(* Building and compiling.  A Composition object has the composition array *)
(* and the list of the attached actions; the combinators are called on the *)
(* object built so far and on new leaves, and compile on the result.       *)
(***************************************************************************)
MaxSteps == 2

builder == <<built, program, steps>>
names == <<given, qualified>>
deployment == <<attached, index, issued, phase>>

\* the conductor has not been made
ConductorIdle ==
    /\ composition = <<>> /\ fsm = <<>> /\ params = Undefined /\ state = Undefined
    /\ stack = <<>> /\ pc = "off" /\ output = Undefined /\ trace = <<>>
    /\ emitted = 0 /\ invocations = 0 /\ u = Conf(Undefined, Undefined, <<>>)

Built(array, actions) == [composition |-> array, actions |-> actions]

\* the constructor's collection of the actions of the children, after its own
merge(actions, children) == actions \o Flatten([i \in 1..Len(children) |-> children[i].actions])

Action(name, options) == Built(composer_action(name, options), action_actions(name, options))

Filler == Built(F("tick"), <<>>)
Inline == Action(Str(<<"a">>), [action |-> Str("p => p")])

Leaves ==
    {Action(Str(<<"a">>), Undefined),
     Inline,
     Action(Str(<<"n", "/", "b">>), [action |-> Fn("g")]),
     Action(Str(<<"c">>), [sequence |-> Arr(<<Str(<<"a">>), Str(<<"/", "n", "/", "b">>)>>)]),
     Filler,
     Built(composer_literal(Num(1), Undefined), <<>>),
     Built(composer_sequence(<<>>), <<>>)}

\* a combinator returned the Composition of array with the actions of children
Use(array, children) ==
    /\ steps < MaxSteps
    /\ built' = Built(array, merge(<<>>, children))
    /\ steps' = steps + 1
    /\ program' = <<>>
    /\ UNCHANGED <<conductor, names, deployment>>

BuildSequence ==
    \E l \in {Filler, Inline}, first \in BOOLEAN :
        LET children == IF first THEN <<built, l>> ELSE <<l, built>>
        IN Use(composer_sequence(<<children[1].composition, children[2].composition>>), children)

BuildIf ==
    \E pos \in 1..3, o \in {Undefined, Nosave} :
        LET arg(i) == IF i = pos THEN built ELSE Filler
        IN Use(composer_if(arg(1).composition, arg(2).composition, arg(3).composition, o),
               <<arg(1), arg(2), arg(3)>>)

BuildWhile ==
    \E pos \in 1..2, o \in {Undefined, Nosave} :
        LET test == IF pos = 1 THEN built ELSE Filler
            body == IF pos = 2 THEN built ELSE Filler
        IN Use(composer_while(test.composition, body.composition, o), <<test, body>>)

BuildDowhile ==
    \E pos \in 1..2, o \in {Undefined, Nosave} :
        LET body == IF pos = 1 THEN built ELSE Filler
            test == IF pos = 2 THEN built ELSE Filler
        IN Use(composer_dowhile(body.composition, test.composition, o), <<test, body>>)

BuildTry ==
    \E pos \in 1..2 :
        LET body == IF pos = 1 THEN built ELSE Filler
            handler == IF pos = 2 THEN built ELSE Filler
        IN Use(composer_try(body.composition, handler.composition, Undefined), <<body, handler>>)

BuildFinally ==
    \E pos \in 1..2 :
        LET body == IF pos = 1 THEN built ELSE Filler
            finalizer == IF pos = 2 THEN built ELSE Filler
        IN Use(composer_finally(body.composition, finalizer.composition, Undefined), <<body, finalizer>>)

BuildLet ==
    Use(composer_let([v |-> Num(1)], <<built.composition>>), <<built>>)

BuildRetain ==
    \E o \in RetainOptions :
        Use(composer_retain(built.composition, o), <<built>>)

\* named(name), which throws when an attached action has the name already
BuildNamed ==
    \E n \in {Str(<<"a">>), Str(<<"m">>)} :
        LET name == parseActionName(n)
        IN /\ steps < MaxSteps
           /\ IsString(name)
           /\ \A i \in 1..Len(built.actions) : built.actions[i].name # name
           /\ built' = Built(Composition([type |-> "action", name |-> name], Undefined),
                             built.actions \o
                             <<[name |-> name,
                                action |-> [exec |-> [kind |-> Str("composition"),
                                                      composition |-> built.composition]]]>>)
           /\ steps' = steps + 1
           /\ program' = <<>>
           /\ UNCHANGED <<conductor, names, deployment>>

\* deserialize({ composition, actions }) of the fields of the object: the
\* nodes of the array are no Composition objects, so nothing is merged
BuildDeserialize ==
    /\ steps < MaxSteps
    /\ built' = Built(built.composition, merge(built.actions, <<>>))
    /\ steps' = steps + 1
    /\ program' = <<>>
    /\ UNCHANGED <<conductor, names, deployment>>

\* const fsm = compile(composition)
Compile ==
    /\ program = <<>>
    /\ program' = compile(built.composition, <<>>)
    /\ UNCHANGED <<built, steps, conductor, names, deployment>>

InitBuild ==
    /\ ConductorIdle
    /\ built \in Leaves /\ program = <<>> /\ steps = 0
    /\ given = Undefined /\ qualified = Undefined
    /\ attached = <<>> /\ index = 0 /\ issued = <<>> /\ phase = "idle"

NextBuild ==
    \/ BuildSequence
    \/ BuildIf
    \/ BuildWhile
    \/ BuildDowhile
    \/ BuildTry
    \/ BuildFinally
    \/ BuildLet
    \/ BuildRetain
    \/ BuildNamed
    \/ BuildDeserialize
    \/ Compile

SpecBuild == InitBuild /\ [][NextBuild]_vars

\* the offsets that the instruction at place i of program carries
Offsets(i) ==
    {program[i][f].num : f \in {g \in {"next", "then", "else", "catch"} : IsNumber(program[i][g])}}

\* C12: in the program compile emits, every next, then, else and catch
\* offset, added to the index of its instruction, is an index of the program.
C12_JumpsInside ==
    \A i \in 1..Len(program) : \A k \in Offsets(i) : (i - 1) + k \in 0..(Len(program) - 1)

\* C12's case: a loop inside a try inside an if has been compiled, with a
\* jump backwards and a catch offset
C12_Witness ==
    /\ steps = MaxSteps
    /\ Len(program) > 0
    /\ \E i, j \in 1..Len(program) :
          /\ \E k \in Offsets(i) : k < 0
          /\ program[j].type = "try" /\ Offsets(j) # {}


\* the try instructions of the program, and the instructions compiled for the
\* body of the try or finally that the try instruction at j opens
Tries22 == {j \in 1..Len(program) : program[j].type = "try"}
BodyOf(j) == {i \in 1..Len(program) : IsPrefix(program[j].path \o <<".body">>, program[i].path)}

\* C22 as stated: the catch offset of the try instruction of try{body,
\* handler} and of finally{body, finalizer} is len(body) + 1.
C22_CatchOffset ==
    \A j \in Tries22 : program[j].catch = Num(Cardinality(BodyOf(j)) + 1)

\* C22 amended: the catch offset is len(body) + 2, past the try instruction,
\* the body and the exit: it leads to the first instruction of the handler or
\* finalizer, and the instruction before that one is the exit of the construct.
C22_CatchPastExit ==
    \A j \in Tries22 :
        LET target == j + Cardinality(BodyOf(j)) + 2
        IN /\ program[j].catch = Num(Cardinality(BodyOf(j)) + 2)
           /\ BodyOf(j) = (j + 1)..(target - 2)
           /\ program[target - 1].type = "exit" /\ program[target - 1].path = program[j].path
           /\ target <= Len(program)
           /\ \/ IsPrefix(program[j].path \o <<".handler">>, program[target].path)
              \/ IsPrefix(program[j].path \o <<".finalizer">>, program[target].path)

\* C22's case: a try whose body is a finally has been compiled
C22_Witness ==
    \E j, l \in Tries22 :
        /\ l \in BodyOf(j)
        /\ Cardinality(BodyOf(l)) >= 1
        /\ IsPrefix(program[j].path \o <<".handler">>, program[j + program[j].catch.num].path)
        /\ IsPrefix(program[l].path \o <<".finalizer">>, program[l + program[l].catch.num].path)


\* C17: no two entries of the attached actions of the composition built have
\* the same name, whatever combinators were called to build it.
C17_UniqueNames ==
    \A i, j \in 1..Len(built.actions) :
        i # j => built.actions[i].name # built.actions[j].name


(***************************************************************************)
(* Qualifying names.                                                       *)
(***************************************************************************)
MaxNameLen == 8

Alphabet == {delimiter, " ", "a"}

\* the values handed to parseActionName: every text of up to MaxNameLen
\* characters, and values that are no strings
GivenNames ==
    {Str(t) : t \in UNION {[1..n -> Alphabet] : n \in 0..MaxNameLen}} \cup {Num(1), Undefined}

\* name = parseActionName(name)
Parse ==
    /\ qualified = Undefined
    /\ qualified' = parseActionName(given)
    /\ UNCHANGED <<given, conductor, builder, deployment>>

InitNames ==
    /\ ConductorIdle
    /\ built = Undefined /\ program = <<>> /\ steps = 0
    /\ given \in GivenNames /\ qualified = Undefined
    /\ attached = <<>> /\ index = 0 /\ issued = <<>> /\ phase = "idle"

NextNames == Parse

SpecNames == InitNames /\ [][NextNames]_vars

\* C18: a name that parseActionName returned is accepted by parseActionName
\* and returned by it as it is.
C18_Idempotent ==
    IsString(qualified) => parseActionName(qualified) = qualified

\* C18's case: a name of three parts with a blank in front and no leading
\* slash was qualified to a different text of four parts
C18_Witness ==
    /\ IsString(qualified)
    /\ given.str[1] = " "
    /\ qualified.str # given.str
    /\ Len(split(qualified.str)) = 4


(***************************************************************************)
(* Deploying.  deploy encodes the composition and chains, for every        *)
(* attached action in turn, a delete and an update of the platform; each   *)
(* call settles when the platform answers, well or not.                    *)
(***************************************************************************)
MaxAttached == 3

\* encode({ name, action }): a composition becomes an action that runs the conductor on it
encode(entry) ==
    IF entry.action.exec.kind # Str("composition") THEN entry
    ELSE [name |-> entry.name,
          action |-> [exec |-> [kind |-> Str("nodejs:default"),
                                code |-> [conductor |-> entry.action.exec.composition]],
                      annotations |-> Arr(<<[key |-> Str("conductor"),
                                             value |-> entry.action.exec.composition]>>)]]

\* this.named(name), or the error it throws
named(this, name) ==
    LET name1 == parseActionName(name)
    IN IF ~IsString(name) THEN ComposerError("Invalid argument")
       ELSE IF ~IsString(name1) THEN name1
       ELSE IF \E i \in 1..Len(this.actions) : this.actions[i].name = name1
       THEN ComposerError("Duplicate action name")
       ELSE Built(Composition([type |-> "action", name |-> name1], Undefined),
                  this.actions \o <<[name |-> name1,
                                     action |-> [exec |-> [kind |-> Str("composition"),
                                                           composition |-> this.composition]]]>>)

\* this.encode(name), or the error it throws
composition_encode(this, name) ==
    LET obj == IF IsString(name) THEN named(this, name) ELSE this
    IN IF "ComposerError" \in DOMAIN obj THEN obj
       ELSE IF Len(obj.composition) # 1 \/ obj.composition[1].type # "action"
       THEN ComposerError("Cannot encode anonymous composition")
       ELSE Built(obj.composition, [i \in 1..Len(obj.actions) |-> encode(obj.actions[i])])

\* the name of the i-th action of a composition to deploy
Letters(i) == [j \in 1..i |-> "a"]

\* a sequence of k actions defined inline
Defined(k) ==
    LET part(i) == Action(Str(Letters(i)), [action |-> Str("p => p")])
    IN Built(composer_sequence([i \in 1..k |-> part(i).composition]),
             merge(<<>>, [i \in 1..k |-> part(i)]))

DeployInputs == {Defined(k) : k \in 0..MaxAttached}

\* a call of the platform, not yet settled
Issue(op, action) == [op |-> op, name |-> action.name, outcome |-> "pending"]

\* the platform has answered the call issued last
Settle(ok) == [issued EXCEPT ![Len(issued)].outcome = IF ok THEN "ok" ELSE "failed"]

\* deploy(composition, name) up to the first link of the chain
Deploy ==
    /\ phase = "idle"
    /\ \E name \in {Str(<<"m">>), Str(Letters(1)), Undefined} :
          LET obj == composition_encode(built, name)
          IN IF "ComposerError" \in DOMAIN obj
             THEN phase' = "thrown" /\ UNCHANGED <<attached, index>>
             ELSE phase' = "next" /\ attached' = obj.actions /\ index' = 1
    /\ UNCHANGED <<issued, conductor, builder, names>>

\* promise.then(() => this.actions.delete(action) ...
IssueDelete ==
    /\ phase = "next" /\ index <= Len(attached)
    /\ issued' = Append(issued, Issue("delete", attached[index]))
    /\ phase' = "deleting"
    /\ UNCHANGED <<attached, index, conductor, builder, names>>

\* the delete without .catch(() => { }): a failed delete rejects the chain
SettleDelete_NoCatch ==
    /\ phase = "deleting"
    /\ \E ok \in BOOLEAN :
          /\ issued' = Settle(ok)
          /\ phase' = IF ok THEN "deleted" ELSE "rejected"
    /\ UNCHANGED <<attached, index, conductor, builder, names>>

\* ... .catch(() => { })): the delete has settled, and a failure is dropped
SettleDelete ==
    /\ phase = "deleting"
    /\ \E ok \in BOOLEAN : issued' = Settle(ok)
    /\ phase' = "deleted"
    /\ UNCHANGED <<attached, index, conductor, builder, names>>

\* .then(() => this.actions.update(action))
IssueUpdate ==
    /\ phase = "deleted"
    /\ issued' = Append(issued, Issue("update", attached[index]))
    /\ phase' = "updating"
    /\ UNCHANGED <<attached, index, conductor, builder, names>>

\* the update has settled: the chain goes on to the next action, or is rejected
SettleUpdate ==
    /\ phase = "updating"
    /\ \E ok \in BOOLEAN :
          /\ issued' = Settle(ok)
          /\ IF ok THEN phase' = "next" /\ index' = index + 1
                   ELSE phase' = "rejected" /\ UNCHANGED index
    /\ UNCHANGED <<attached, conductor, builder, names>>

\* .then(() => composition)
Resolve ==
    /\ phase = "next" /\ index > Len(attached)
    /\ phase' = "resolved"
    /\ UNCHANGED <<attached, index, issued, conductor, builder, names>>

InitDeploy ==
    /\ ConductorIdle
    /\ built \in DeployInputs /\ program = <<>> /\ steps = 0
    /\ given = Undefined /\ qualified = Undefined
    /\ attached = <<>> /\ index = 0 /\ issued = <<>> /\ phase = "idle"

NextDeploy ==
    \/ Deploy
    \/ IssueDelete
    \/ SettleDelete
    \/ IssueUpdate
    \/ SettleUpdate
    \/ Resolve

SpecDeploy == InitDeploy /\ [][NextDeploy]_vars

\* C19: the calls deploy has issued are, in the order of the list of attached
\* actions, the delete of an action and then its update; a call is issued
\* only when every call before it has settled, an update only after the
\* delete of its action has settled, well or not, and a call for the next
\* action only after the update of the one before has succeeded.  After a
\* failed update no call is issued and deploy is rejected; deploy is rejected
\* by nothing else, and resolves when every action has been updated.
C19_SerialDeploy ==
    /\ Len(issued) <= 2 * Len(attached)
    /\ \A q \in 1..Len(issued) :
          /\ issued[q].op = (IF q % 2 = 1 THEN "delete" ELSE "update")
          /\ issued[q].name = attached[(q + 1) \div 2].name
          /\ q < Len(issued) => issued[q].outcome # "pending"
          /\ (q < Len(issued) /\ issued[q].op = "update") => issued[q].outcome = "ok"
    /\ phase = "rejected" =>
          /\ Len(issued) > 0
          /\ issued[Len(issued)].op = "update" /\ issued[Len(issued)].outcome = "failed"
    /\ phase = "resolved" =>
          /\ Len(issued) = 2 * Len(attached)
          /\ \A q \in 1..Len(issued) : issued[q].op = "update" => issued[q].outcome = "ok"

\* C19's case: of four attached actions the first was deleted and updated, the
\* delete of the second failed and was ignored, its update failed, and
\* deploy was rejected with no call for the third and fourth
C19_Witness ==
    /\ phase = "rejected"
    /\ Len(attached) = MaxAttached + 1
    /\ Len(issued) = 4
    /\ issued[3].outcome = "failed"
    /\ issued[4].outcome = "failed"

=============================================================================
